---- MODULE Spec2Model ----
(***************************************************************************)
(* Cube background model of gammapy (gammapy/background/models.py):        *)
(* binning policy (define_cube_binning / set_cube_binning), histogram      *)
(* accumulation (fill_events) and smoothing (smooth).                      *)
(*                                                                         *)
(* Number representation.  The code computes with IEEE doubles; the model  *)
(* computes with exact integers and rationals (real-number semantics).     *)
(*  - An energy is kept as its decimal logarithm in units of 1e-4 dex      *)
(*    relative to 1 TeV: 0.1 TeV = -10000, 80 TeV = 19031, a factor 1e6 =  *)
(*    +60000.  np.log / np.exp and every comparison are monotone, so the   *)
(*    order of energies, thresholds and edges is the order of these        *)
(*    integers, and logarithmic spacing is linear spacing of them.         *)
(*  - A detector angle is kept in units of 0.01 radian (0.07 rad = 7).     *)
(*  - An edge vector is [v |-> <<n0, n1, ...>>, d |-> den]: edge i is      *)
(*    v[i] / d.  np.arange(n + 1) * (max - min) / n + min has d = n.       *)
(*  - A cube's data is a 3-D array of integer numerators plus one          *)
(*    denominator per energy slice: value = data[e][y][x] / den[e].        *)
(*    den[e] = 0 stands for a slice of NaN (the result of 0/0).            *)
(***************************************************************************)
EXTENDS Integers, Sequences, FiniteSets, TLC

VARIABLES model, last, binning_args, filled, file, io_format, call, result, disk
vars == <<model, last, binning_args, filled, file, io_format, call, result, disk>>

---------------------------------------------------------------------------
(* Bounds of the exploration *)

\* observations accumulated into one model (group lengths and repeated fills)
MaxObs == 2
\* largest observation table handed to define_cube_binning
MaxNObs == 101

---------------------------------------------------------------------------
(* Program constants *)

\* n_ebins = 20, n_ybins = 60, n_xbins = 60
BaseEBins == 20
BaseYBins == 60
BaseXBins == 60
\* if n_obs < 100
ObsLimit == 100
\* minus_bins = int(n_obs/10) - 10
ObsStep == 10
StepOffset == 10
\* n_ybins += 4*minus_bins
SpatialFactor == 4
\* energy_min = Quantity(0.1, 'TeV'): log10(0.1) in 1e-4 dex
EnergyMinDefault == -10000
\* energy_max = Quantity(80, 'TeV'): log10(80) = 1.90309
EnergyMax == 19031
\* Angle(-0.07, 'radian'), Angle(0.07, 'radian')
DetMin == -7
DetMax == 7
\* min_energy_threshold = Quantity(999., 'TeV'): log10(999) = 2.99957
ThresholdInit == 29996
\* energy_threshold*1.e6: log10(1e6)
EnergyWindow == 60000

NoModel == [none |-> TRUE]
NoArgs == [none |-> TRUE]
\* no file at the path (a FITS file has at least its primary HDU)
NoFile == <<>>
NoDisk == [none |-> TRUE]
Unbound == "unbound"

Min2(a, b) == IF a <= b THEN a ELSE b
Max2(a, b) == IF a >= b THEN a ELSE b

---------------------------------------------------------------------------
(* The data store at fits_path: per observation one effective-area file    *)
(* (header LO_THRES and its comment) and one event list (live time and     *)
(* events).  Units as described in the module header.                      *)

ObsIds == {1, 2, 3, 4}

Ev(e, y, x) == [ENERGY |-> e, DETY |-> y, DETX |-> x]

AeffFile(id) ==
    CASE id = 1 -> [LO_THRES |-> 5000,   comment |-> "[TeV]"]
      [] id = 2 -> [LO_THRES |-> 10000,  comment |-> ""]
      [] id = 3 -> [LO_THRES |-> -50000, comment |-> "[TeV]"]
      [] id = 4 -> [LO_THRES |-> 31761,  comment |-> "[TeV]"]

EventListFile(id) ==
    CASE id = 1 -> [observation_live_time_duration |-> 3,
                    events |-> << Ev(4000, 0, 0), Ev(5000, -1, -1), Ev(10000, 0, 0),
                                  Ev(20000, 1, 1), Ev(20001, 0, 0), Ev(6000, 3, 0) >>]
      [] id = 2 -> [observation_live_time_duration |-> 2,
                    events |-> << Ev(10000, 0, 0), Ev(9999, 0, 0), Ev(15000, -1, 2) >>]
      [] id = 3 -> [observation_live_time_duration |-> 1,
                    events |-> << Ev(10000, 1, -1), Ev(10001, 0, 0), Ev(0, 0, 1) >>]
      [] id = 4 -> [observation_live_time_duration |-> 5,
                    events |-> << Ev(32000, 0, 0) >>]

\* the observations a table may list: those of the store and one whose files
\* are not at fits_path
StoreIds == ObsIds \cup {5}

\* EventListDataset.read and fits.open raise IOError for a file that is absent
FileExists(id) == id \in ObsIds

\* an observation table: meta['OBSERVATORY_NAME'] and one row per observation
ObsTable(name, rows) == [OBSERVATORY_NAME |-> name, rows |-> rows]

SeqsUpTo(S, n) == UNION {[1..k -> S] : k \in 0..n}

\* a table of n rows repeating one observation
Repeat(id, n) == [i \in 1..n |-> id]

---------------------------------------------------------------------------
(* Cube and CubeBackgroundModel construction *)

Edges(v, d) == [v |-> v, d |-> d]
NBins(edges) == Len(edges.v) - 1

\* np.zeros((ne, ny, nx))
zeros(ne, ny, nx) ==
    LET row == [x \in 1..nx |-> 0]
        plane == [y \in 1..ny |-> row]
    IN  [e \in 1..ne |-> plane]

Cube(coordx_edges, coordy_edges, energy_edges, data, den, scheme) ==
    [coordx_edges |-> coordx_edges, coordy_edges |-> coordy_edges,
     energy_edges |-> energy_edges, data |-> data, den |-> den,
     scheme |-> scheme]

CubeBackgroundModel(counts_cube, livetime_cube, background_cube) ==
    [counts_cube |-> counts_cube, livetime_cube |-> livetime_cube,
     background_cube |-> background_cube]

set_cube_binning_swapped(detx_edges, dety_edges, energy_edges) ==
    LET empty_cube_data == zeros(NBins(energy_edges), NBins(detx_edges), NBins(dety_edges))
        ones == [e \in 1..NBins(energy_edges) |-> 1]
        counts_cube == Cube(detx_edges, dety_edges, energy_edges,
                            empty_cube_data, ones, "bg_counts_cube")
        livetime_cube == Cube(detx_edges, dety_edges, energy_edges,
                              empty_cube_data, ones, "bg_livetime_cube")
        background_cube == Cube(detx_edges, dety_edges, energy_edges,
                                empty_cube_data, ones, "bg_cube")
    IN  CubeBackgroundModel(counts_cube, livetime_cube, background_cube)

set_cube_binning(detx_edges, dety_edges, energy_edges) ==
    LET empty_cube_data == zeros(NBins(energy_edges), NBins(dety_edges), NBins(detx_edges))
        ones == [e \in 1..NBins(energy_edges) |-> 1]
        counts_cube == Cube(detx_edges, dety_edges, energy_edges,
                            empty_cube_data, ones, "bg_counts_cube")
        livetime_cube == Cube(detx_edges, dety_edges, energy_edges,
                              empty_cube_data, ones, "bg_livetime_cube")
        background_cube == Cube(detx_edges, dety_edges, energy_edges,
                                empty_cube_data, ones, "bg_cube")
    IN  CubeBackgroundModel(counts_cube, livetime_cube, background_cube)

---------------------------------------------------------------------------
(* _get_min_energy_threshold: scan of the effective-area headers.  unit is *)
(* the local energy_threshold_unit, assigned only when the comment is      *)
(* '[TeV]' and otherwise left as the previous iteration left it.           *)

\* body of the loop over the observations: the unit is assigned only when
\* the header comment is '[TeV]', and read in every iteration
min_threshold_step(state, obs_id) ==
    IF state.outcome # "ok" THEN state
    ELSE IF ~FileExists(obs_id) THEN [state EXCEPT !.outcome = "IOError"]
    ELSE LET aeff_hdu == AeffFile(obs_id)
             energy_threshold_unit ==
                 IF aeff_hdu.comment = "[TeV]" THEN "TeV" ELSE state.unit
         IN  IF energy_threshold_unit = Unbound
             THEN [state EXCEPT !.outcome = "UnboundLocalError"]
             ELSE [outcome |-> "ok",
                   value |-> Min2(state.value, aeff_hdu.LO_THRES),
                   unit |-> energy_threshold_unit]

\* the loop over rows lo..hi in table order, evaluated as the first half
\* followed by the second half; an exception ends the loop
RECURSIVE min_threshold_loop(_, _, _, _)
min_threshold_loop(rows, lo, hi, state) ==
    IF state.outcome # "ok" \/ lo > hi THEN state
    ELSE IF lo = hi THEN min_threshold_step(state, rows[lo])
    ELSE LET mid == (lo + hi) \div 2
             half == min_threshold_loop(rows, lo, mid, state)
         IN  min_threshold_loop(rows, mid + 1, hi, half)

get_min_energy_threshold(observation_table) ==
    IF observation_table.OBSERVATORY_NAME # "HESS"
    THEN [outcome |-> "ValueError", value |-> 0]
    ELSE LET rows == observation_table.rows
             r == min_threshold_loop(rows, 1, Len(rows),
                      [outcome |-> "ok", value |-> ThresholdInit, unit |-> Unbound])
         IN  [outcome |-> r.outcome, value |-> r.value]

---------------------------------------------------------------------------
(* define_cube_binning *)

bg_cube_shape_round(n_obs) ==
    IF n_obs < ObsLimit
    THEN LET minus_bins == ((n_obs + ObsStep \div 2) \div ObsStep) - StepOffset
         IN  << BaseEBins + minus_bins,
                BaseYBins + SpatialFactor * minus_bins,
                BaseXBins + SpatialFactor * minus_bins >>
    ELSE << BaseEBins, BaseYBins, BaseXBins >>

bg_cube_shape_deep(n_obs) ==
    IF n_obs < ObsLimit
    THEN LET minus_bins == (n_obs \div ObsStep) - BaseEBins
         IN  << BaseEBins + minus_bins,
                BaseYBins + SpatialFactor * minus_bins,
                BaseXBins + SpatialFactor * minus_bins >>
    ELSE << BaseEBins, BaseYBins, BaseXBins >>

\* n_obs >= 0, so int(n_obs/10) is the floor
bg_cube_shape(n_obs) ==
    IF n_obs < ObsLimit
    THEN LET minus_bins == (n_obs \div ObsStep) - StepOffset
         IN  << BaseEBins + minus_bins,
                BaseYBins + SpatialFactor * minus_bins,
                BaseXBins + SpatialFactor * minus_bins >>
    ELSE << BaseEBins, BaseYBins, BaseXBins >>

\* np.arange(n + 1) * ((hi - lo) / n) + lo, over the common denominator n
linspace_edges(lo, hi, n) ==
    Edges([k \in 1..(n + 1) |-> (k - 1) * (hi - lo) + n * lo], n)

define_cube_binning_scanning(observation_table, method) ==
    LET shape == bg_cube_shape(Len(observation_table.rows))
        scan == IF method # "default"
                THEN get_min_energy_threshold(observation_table)
                ELSE [outcome |-> "ok", value |-> EnergyMinDefault]
        energy_min == scan.value
        energy_edges == linspace_edges(energy_min, EnergyMax, shape[1])
        dety_edges == linspace_edges(DetMin, DetMax, shape[2])
        detx_edges == linspace_edges(DetMin, DetMax, shape[3])
    IN  IF scan.outcome # "ok"
        THEN [outcome |-> scan.outcome, model |-> NoModel]
        ELSE [outcome |-> "ok",
              model |-> set_cube_binning(detx_edges, dety_edges, energy_edges)]

define_cube_binning(observation_table, method) ==
    LET shape == bg_cube_shape(Len(observation_table.rows))
        scan == IF method = "michi"
                THEN get_min_energy_threshold(observation_table)
                ELSE [outcome |-> "ok", value |-> EnergyMinDefault]
        energy_min == scan.value
        \* exp(arange(n + 1) * log_delta_energy + log(energy_min))
        energy_edges == linspace_edges(energy_min, EnergyMax, shape[1])
        dety_edges == linspace_edges(DetMin, DetMax, shape[2])
        detx_edges == linspace_edges(DetMin, DetMax, shape[3])
    IN  IF scan.outcome # "ok"
        THEN [outcome |-> scan.outcome, model |-> NoModel]
        ELSE [outcome |-> "ok",
              model |-> set_cube_binning(detx_edges, dety_edges, energy_edges)]

---------------------------------------------------------------------------
(* Arithmetic helpers *)

RECURSIVE SumSeqFrom(_, _)
SumSeqFrom(s, i) == IF i > Len(s) THEN 0 ELSE s[i] + SumSeqFrom(s, i + 1)
SumSeq(s) == SumSeqFrom(s, 1)

RECURSIVE MaxSeqFrom(_, _)
MaxSeqFrom(s, i) == IF i > Len(s) THEN 0 ELSE Max2(s[i], MaxSeqFrom(s, i + 1))
MaxSeq(s) == MaxSeqFrom(s, 1)

Abs(a) == IF a < 0 THEN -a ELSE a

RECURSIVE Gcd(_, _)
Gcd(a, b) == IF b = 0 THEN Abs(a) ELSE Gcd(b, a % Abs(b))

RECURSIVE GcdSeqFrom(_, _)
GcdSeqFrom(s, i) == IF i > Len(s) THEN 0 ELSE Gcd(s[i], GcdSeqFrom(s, i + 1))

\* sums and maxima over a (Y, X) image and over a whole data array
SumImage(image) == SumSeq([y \in 1..Len(image) |-> SumSeq(image[y])])
MaxImage(image) == MaxSeq([y \in 1..Len(image) |-> MaxSeq(image[y])])
GcdImage(image) == GcdSeqFrom([y \in 1..Len(image) |-> GcdSeqFrom(image[y], 1)], 1)
SumData(data) == SumSeq([e \in 1..Len(data) |-> SumImage(data[e])])

Shape(cube) == << Len(cube.data), Len(cube.data[1]), Len(cube.data[1][1]) >>

---------------------------------------------------------------------------
(* fill_events *)

\* EventList.select_energy((lo, hi)): the events whose energy lies in the band
select_energy(events, lo, hi) ==
    SelectSeq(events, LAMBDA ev : lo <= ev.ENERGY /\ ev.ENERGY <= hi)

digitize_half_open(value, edges) ==
    Cardinality({k \in 1..Len(edges.v) : edges.v[k] <= value * edges.d})

\* np.histogramdd's bin of a value on one axis: the number of edges <= value
\* (np.searchsorted, side='right'), a value on the last edge being moved into
\* the last bin; 0 and len(edges) are the outliers
digitize(value, edges) ==
    LET n == Cardinality({k \in 1..Len(edges.v) : edges.v[k] <= value * edges.d})
    IN  IF value * edges.d = edges.v[Len(edges.v)] THEN n - 1 ELSE n

\* np.histogramdd(sample, [energy_edges, coordy_edges, coordx_edges])
histogramdd(events, energy_edges, coordy_edges, coordx_edges) ==
    LET bin(i) == << digitize(events[i].ENERGY, energy_edges),
                     digitize(events[i].DETY, coordy_edges),
                     digitize(events[i].DETX, coordx_edges) >>
    IN  [e \in 1..NBins(energy_edges) |->
          [y \in 1..NBins(coordy_edges) |->
            [x \in 1..NBins(coordx_edges) |->
              Cardinality({i \in 1..Len(events) : bin(i) = <<e, y, x>>})]]]

\* mask = energy_max > energy_threshold, energy_max = energy_edges[1:]
livetime_mask_ge(energy_edges, energy_threshold) ==
    [e \in 1..NBins(energy_edges) |->
        IF energy_edges.v[e + 1] >= energy_threshold * energy_edges.d THEN 1 ELSE 0]

livetime_mask_inverted(energy_edges, energy_threshold) ==
    [e \in 1..NBins(energy_edges) |->
        IF energy_edges.v[e + 1] > energy_threshold * energy_edges.d THEN 0 ELSE 1]

livetime_mask(energy_edges, energy_threshold) ==
    [e \in 1..NBins(energy_edges) |->
        IF energy_edges.v[e + 1] > energy_threshold * energy_edges.d THEN 1 ELSE 0]

\* one iteration of the loop over observations, the threshold being known
fill_observation(m, id, energy_threshold) ==
    LET ev_list_ds == EventListFile(id)
        livetime == ev_list_ds.observation_live_time_duration
        data_set == select_energy(ev_list_ds.events, energy_threshold,
                                  energy_threshold + EnergyWindow)
        ev_cube_hist == histogramdd(data_set, m.counts_cube.energy_edges,
                                    m.counts_cube.coordy_edges,
                                    m.counts_cube.coordx_edges)
        mask == livetime_mask(m.counts_cube.energy_edges, energy_threshold)
        sh == Shape(m.counts_cube)
    IN  [m EXCEPT
           !.counts_cube.data =
               [e \in 1..sh[1] |-> [y \in 1..sh[2] |-> [x \in 1..sh[3] |->
                   m.counts_cube.data[e][y][x] + ev_cube_hist[e][y][x]]]],
           !.livetime_cube.data =
               [e \in 1..sh[1] |-> [y \in 1..sh[2] |-> [x \in 1..sh[3] |->
                   m.livetime_cube.data[e][y][x] + livetime * mask[e]]]]]

\* the loop over observations; unit is the local energy_threshold_unit
RECURSIVE fill_loop(_, _, _, _)
fill_loop(m, rows, i, unit) ==
    IF i > Len(rows) THEN [outcome |-> "ok", model |-> m, n_done |-> Len(rows)]
    ELSE IF ~FileExists(rows[i])
    THEN [outcome |-> "IOError", model |-> m, n_done |-> i - 1]
    ELSE LET aeff_hdu == AeffFile(rows[i])
             energy_threshold_unit ==
                 IF aeff_hdu.comment = "[TeV]" THEN "TeV" ELSE unit
         IN  IF energy_threshold_unit = Unbound
             THEN [outcome |-> "UnboundLocalError", model |-> m, n_done |-> i - 1]
             ELSE fill_loop(fill_observation(m, rows[i], aeff_hdu.LO_THRES),
                            rows, i + 1, energy_threshold_unit)

fill_events_unchecked(m, observation_table) ==
    fill_loop(m, observation_table.rows, 1, Unbound)

fill_events_transactional(m, observation_table) ==
    IF observation_table.OBSERVATORY_NAME # "HESS"
    THEN [outcome |-> "ValueError", model |-> m, n_done |-> 0]
    ELSE LET r == fill_loop(m, observation_table.rows, 1, Unbound)
         IN  IF r.outcome = "ok" THEN r ELSE [r EXCEPT !.model = m]

fill_events_clearing(m, observation_table) ==
    LET r == IF observation_table.OBSERVATORY_NAME # "HESS"
             THEN [outcome |-> "ValueError", model |-> m, n_done |-> 0]
             ELSE fill_loop(m, observation_table.rows, 1, Unbound)
        sh == Shape(m.background_cube)
    IN  [r EXCEPT !.model.background_cube.data = zeros(sh[1], sh[2], sh[3])]

fill_events(m, observation_table) ==
    IF observation_table.OBSERVATORY_NAME # "HESS"
    THEN [outcome |-> "ValueError", model |-> m, n_done |-> 0]
    ELSE fill_loop(m, observation_table.rows, 1, Unbound)

---------------------------------------------------------------------------
(* smooth *)

\* n_counts >= 1.e6 -> 3, n_counts >= 1.e5 -> 4, else 5
CountsHigh == 1000000
CountsLow == 100000
NSmoothHigh == 3
NSmoothMid == 4
NSmoothLow == 5

k5a == << <<0, 0, 1, 0, 0>>,
          <<0, 2, 2, 2, 0>>,
          <<1, 2, 5, 2, 1>>,
          <<0, 2, 2, 2, 0>>,
          <<0, 0, 1, 0, 0>> >>

\* scipy.ndimage boundary handling for an index i (1-based) of an axis of
\* length n.  'reflect' (the default mode) is (d c b a | a b c d | d c b a);
\* 0 stands for "outside the image".
extend_index(i, n, mode) ==
    IF mode = "reflect"
    THEN LET j == (i - 1) % (2 * n)
         IN  IF j < n THEN j + 1 ELSE 2 * n - j
    ELSE IF 1 <= i /\ i <= n THEN i ELSE 0

\* scipy.ndimage.convolve(image, kernel, mode=mode, cval=0.0), origin at the
\* kernel centre
ndimage_convolve(image, kernel, mode) ==
    LET ny == Len(image)
        nx == Len(image[1])
        ks == Len(kernel)
        half == ks \div 2
        tap(y, x, t) ==
            LET ky == ((t - 1) \div ks) + 1
                kx == ((t - 1) % ks) + 1
                sy == extend_index(y - (ky - 1 - half), ny, mode)
                sx == extend_index(x - (kx - 1 - half), nx, mode)
            IN  IF sy = 0 \/ sx = 0 \/ kernel[ky][kx] = 0 THEN 0
                ELSE kernel[ky][kx] * image[sy][sx]
    IN  [y \in 1..ny |-> [x \in 1..nx |->
            SumSeq([t \in 1..(ks * ks) |-> tap(y, x, t)])]]

smooth_pass_sharpen(image) ==
    ndimage_convolve(image, << <<0, -1, 0>>, <<-1, 5, -1>>, <<0, -1, 0>> >>, "reflect")

smooth_pass_constant(image) == ndimage_convolve(image, k5a, "constant")

\* image_smooth = ndimage.convolve(data, kernel)
smooth_pass(image) == ndimage_convolve(image, k5a, "reflect")

RECURSIVE smooth_times(_, _)
smooth_times(image, n) ==
    IF n = 0 THEN image ELSE smooth_times(smooth_pass(image), n - 1)

n_smooth_of_gt(n_counts) ==
    IF n_counts > CountsHigh THEN NSmoothHigh
    ELSE IF n_counts >= CountsLow THEN NSmoothMid
    ELSE NSmoothLow

n_smooth_of(n_counts) ==
    IF n_counts >= CountsHigh THEN NSmoothHigh
    ELSE IF n_counts >= CountsLow THEN NSmoothMid
    ELSE NSmoothLow

\* bin_area = (delta_y*delta_x).to('sr'), as numerators over the common
\* denominator coordy_edges.d * coordx_edges.d, in units of 1e-4 sr
bin_area(cube) ==
    [y \in 1..NBins(cube.coordy_edges) |-> [x \in 1..NBins(cube.coordx_edges) |->
        (cube.coordy_edges.v[y + 1] - cube.coordy_edges.v[y])
        * (cube.coordx_edges.v[x + 1] - cube.coordx_edges.v[x])]]

\* (data[e]*bin_area).sum(): the numerator of the integral of one image
integral_image(image, area) ==
    SumSeq([y \in 1..Len(image) |->
        SumSeq([x \in 1..Len(image[y]) |-> image[y][x] * area[y][x]])])

\* image * (integral / integral_smooth) for an image of denominator den;
\* 0/0 is NaN and x/0 is +-inf: the slice is no longer finite (den 0)
rescale(image, den, integral, integral_smooth) ==
    IF den = 0 \/ integral_smooth = 0
    THEN [data |-> [y \in 1..Len(image) |-> [x \in 1..Len(image[y]) |-> 0]], den |-> 0]
    ELSE LET s == IF integral_smooth < 0 THEN -1 ELSE 1
             g == Gcd(integral, integral_smooth)
             num == [y \in 1..Len(image) |-> [x \in 1..Len(image[y]) |->
                        image[y][x] * (s * (integral \div g))]]
             d == den * (s * (integral_smooth \div g))
             h == Gcd(GcdImage(num), d)
         IN  [data |-> [y \in 1..Len(image) |-> [x \in 1..Len(image[y]) |->
                         num[y][x] \div h]],
              den |-> d \div h]

smooth_consuming(m) ==
    LET bg == m.background_cube
        area == bin_area(bg)
        ne == NBins(bg.energy_edges)
        sh == Shape(m.counts_cube)
        n_smooth == n_smooth_of(SumData(m.counts_cube.data))
        slice(e) ==
            LET image_smooth == smooth_times(bg.data[e], n_smooth)
            IN  rescale(image_smooth, bg.den[e],
                        integral_image(bg.data[e], area),
                        integral_image(image_smooth, area))
        out == [e \in 1..ne |-> slice(e)]
    IN  [m EXCEPT !.background_cube.data = [e \in 1..ne |-> out[e].data],
                  !.background_cube.den = [e \in 1..ne |-> out[e].den],
                  !.counts_cube.data = zeros(sh[1], sh[2], sh[3])]

smooth(m) ==
    LET bg == m.background_cube
        area == bin_area(bg)
        ne == NBins(bg.energy_edges)
        n_smooth == n_smooth_of(SumData(m.counts_cube.data))
        slice(e) ==
            LET image_smooth == smooth_times(bg.data[e], n_smooth)
            IN  rescale(image_smooth, bg.den[e],
                        integral_image(bg.data[e], area),
                        integral_image(image_smooth, area))
        out == [e \in 1..ne |-> slice(e)]
    IN  [m EXCEPT !.background_cube.data = [e \in 1..ne |-> out[e].data],
                  !.background_cube.den = [e \in 1..ne |-> out[e].den]]

---------------------------------------------------------------------------
(* read and write.  A FITS file is its list of HDUs.  The Cube methods     *)
(* (to_fits_table, write, read, the empty Cube()) belong to the Cube class *)
(* the model class delegates to.                                           *)

NoEdges == Edges(<<>>, 1)

\* Cube(): the empty cube of a background-only model
EmptyCube == Cube(NoEdges, NoEdges, NoEdges, <<>>, <<>>, "")

PrimaryHDU == [name |-> "PRIMARY"]

\* the LO and HI columns of an edge vector
Lows(edges) == SubSeq(edges.v, 1, Len(edges.v) - 1)
Highs(edges) == SubSeq(edges.v, 2, Len(edges.v))

\* Cube.to_fits_table(): a binary table named after the cube's scheme with
\* the low and high edge of every bin and the data
to_fits_table(cube) ==
    [name |-> cube.scheme,
     DETX_LO |-> Lows(cube.coordx_edges), DETX_HI |-> Highs(cube.coordx_edges),
     DETX_D |-> cube.coordx_edges.d,
     DETY_LO |-> Lows(cube.coordy_edges), DETY_HI |-> Highs(cube.coordy_edges),
     DETY_D |-> cube.coordy_edges.d,
     ENERG_LO |-> Lows(cube.energy_edges), ENERG_HI |-> Highs(cube.energy_edges),
     ENERG_D |-> cube.energy_edges.d,
     data |-> cube.data, den |-> cube.den]

\* bin edges from the LO and HI columns: all lows, then the last high
make_bin_edges(lo, hi, d) == Edges(lo \o << hi[Len(hi)] >>, d)

\* Cube.from_fits_table(hdu, scheme)
from_fits_table(hdu, scheme) ==
    Cube(make_bin_edges(hdu.DETX_LO, hdu.DETX_HI, hdu.DETX_D),
         make_bin_edges(hdu.DETY_LO, hdu.DETY_HI, hdu.DETY_D),
         make_bin_edges(hdu.ENERG_LO, hdu.ENERG_HI, hdu.ENERG_D),
         hdu.data, hdu.den, scheme)

\* Cube.to_fits_image(): the data as primary image, the energy binning as a
\* table
to_fits_image(cube) ==
    << [name |-> "PRIMARY", data |-> cube.data, den |-> cube.den,
        coordx_edges |-> cube.coordx_edges, coordy_edges |-> cube.coordy_edges],
       [name |-> "EBOUNDS", energy_edges |-> cube.energy_edges] >>

\* Cube.write(outfile, format): the file holds this one cube
Cube_write(cube, format) ==
    IF format = "table"
    THEN [outcome |-> "ok", file |-> << PrimaryHDU, to_fits_table(cube) >>]
    ELSE IF format = "image"
    THEN [outcome |-> "ok", file |-> to_fits_image(cube)]
    ELSE [outcome |-> "ValueError", file |-> NoFile]

HduIndex(hdus, name) == {k \in 1..Len(hdus) : hdus[k].name = name}

\* Cube.read(filename, 'table', scheme): the table named after the scheme
Cube_read(hdus, scheme) ==
    IF HduIndex(hdus, scheme) = {}
    THEN [outcome |-> "KeyError", cube |-> EmptyCube]
    ELSE [outcome |-> "ok",
          cube |-> from_fits_table(hdus[CHOOSE k \in HduIndex(hdus, scheme) : TRUE],
                                   scheme)]

read_swapped(f) ==
    IF f = NoFile THEN [outcome |-> "IOError", model |-> NoModel]
    ELSE LET c == Cube_read(f, "bg_livetime_cube")
             l == Cube_read(f, "bg_counts_cube")
             found == c.outcome = "ok" /\ l.outcome = "ok"
             counts_cube == IF found THEN c.cube ELSE EmptyCube
             livetime_cube == IF found THEN l.cube ELSE EmptyCube
             b == Cube_read(f, "bg_cube")
         IN  IF b.outcome # "ok" THEN [outcome |-> b.outcome, model |-> NoModel]
             ELSE [outcome |-> "ok",
                   model |-> CubeBackgroundModel(counts_cube, livetime_cube, b.cube)]

read_separately(f) ==
    IF f = NoFile THEN [outcome |-> "IOError", model |-> NoModel]
    ELSE LET c == Cube_read(f, "bg_counts_cube")
             l == Cube_read(f, "bg_livetime_cube")
             b == Cube_read(f, "bg_cube")
         IN  IF b.outcome # "ok" THEN [outcome |-> b.outcome, model |-> NoModel]
             ELSE [outcome |-> "ok",
                   model |-> CubeBackgroundModel(c.cube, l.cube, b.cube)]

\* CubeBackgroundModel.read(filename, format='table'): fits.open, the counts
\* and livetime cubes under one try/except, then the background cube
read(f) ==
    IF f = NoFile THEN [outcome |-> "IOError", model |-> NoModel]
    ELSE LET c == Cube_read(f, "bg_counts_cube")
             l == Cube_read(f, "bg_livetime_cube")
             found == c.outcome = "ok" /\ l.outcome = "ok"
             counts_cube == IF found THEN c.cube ELSE EmptyCube
             livetime_cube == IF found THEN l.cube ELSE EmptyCube
             b == Cube_read(f, "bg_cube")
         IN  IF b.outcome # "ok" THEN [outcome |-> b.outcome, model |-> NoModel]
             ELSE [outcome |-> "ok",
                   model |-> CubeBackgroundModel(counts_cube, livetime_cube, b.cube)]

write_and(m, format) ==
    IF SumData(m.counts_cube.data) = 0 /\ SumData(m.livetime_cube.data) = 0
    THEN Cube_write(m.background_cube, format)
    ELSE IF format = "table"
    THEN [outcome |-> "ok",
          file |-> << PrimaryHDU, to_fits_table(m.counts_cube),
                      to_fits_table(m.livetime_cube),
                      to_fits_table(m.background_cube) >>]
    ELSE IF format = "image"
    THEN Cube_write(m.background_cube, format)
    ELSE [outcome |-> "ValueError", file |-> NoFile]

\* CubeBackgroundModel.write(outfile, format='table')
write(m, format) ==
    IF SumData(m.counts_cube.data) = 0 \/ SumData(m.livetime_cube.data) = 0
    THEN Cube_write(m.background_cube, format)
    ELSE IF format = "table"
    THEN [outcome |-> "ok",
          file |-> << PrimaryHDU, to_fits_table(m.counts_cube),
                      to_fits_table(m.livetime_cube),
                      to_fits_table(m.background_cube) >>]
    ELSE IF format = "image"
    THEN Cube_write(m.background_cube, format)
    ELSE [outcome |-> "ValueError", file |-> NoFile]

---------------------------------------------------------------------------
(* gammapy/catalog/utils.py: IAU designations.  A string is the sequence   *)
(* of its characters.  A right ascension is a whole number of 0.01 s of    *)
(* time in [0 h, 24 h), a declination a whole number of 0.01 arcsec in     *)
(* [-90 deg, +90 deg]; hms, dms, hour and deg are taken exactly.  A digits *)
(* argument is an int or a float; v holds ten times its value.             *)

IntDigits(n) == [type |-> "int", v |-> 10 * n]
FloatDigits(tenths) == [type |-> "float", v |-> tenths]

DigitChar(d) == <<"0", "1", "2", "3", "4", "5", "6", "7", "8", "9">>[d + 1]

RECURSIVE Decimal(_)
Decimal(n) == IF n < 10 THEN <<DigitChar(n)>>
              ELSE Decimal(n \div 10) \o <<DigitChar(n % 10)>>

\* '{:0<width>d}'.format(n) for n >= 0
ZeroPad(width, n) ==
    LET d == Decimal(n)
    IN  IF Len(d) >= width THEN d ELSE [i \in 1..(width - Len(d)) |-> "0"] \o d

\* '{:+0<width>d}'.format(n): the sign counts in the width
SignedZeroPad(width, n) ==
    IF n >= 0 THEN <<"+">> \o ZeroPad(width - 1, n)
    ELSE <<"-">> \o ZeroPad(width - 1, -n)

RECURSIVE Pow10(_)
Pow10(n) == IF n = 0 THEN 1 ELSE 10 * Pow10(n - 1)

Returned(str) == [outcome |-> "ok", str |-> str, message |-> ""]
Raised(exception, message) == [outcome |-> exception, str |-> <<>>, message |-> message]

\* (not isinstance(digits, int)) and (digits >= 2)
invalid_digits(digits) == digits.type # "int" /\ digits.v >= 20

\* the else branch builds the format '{..:0<s_digits>d}' with s_digits =
\* digits - 6; str.format accepts it only when s_digits is a whole number
\* that is not negative
ra_iau_format_scalar(ra, digits) ==
    LET ra_h == ra \div 360000
        ra_m == (ra % 360000) \div 6000
        ra_s == ra % 6000
        d == digits.v
    IN  IF d = 20 THEN Returned(ZeroPad(2, ra_h))
        ELSE IF d = 30 THEN Returned(ZeroPad(3, ra \div 36000))
        ELSE IF d = 40 THEN Returned(ZeroPad(2, ra_h) \o ZeroPad(2, ra_m))
        ELSE IF d = 50
        THEN Returned(ZeroPad(2, ra_h) \o ZeroPad(2, ra_m) \o <<".">>
                      \o ZeroPad(1, ra_s \div 600))
        ELSE IF d = 60
        THEN Returned(ZeroPad(2, ra_h) \o ZeroPad(2, ra_m) \o ZeroPad(2, ra_s \div 100))
        ELSE IF d % 10 # 0 \/ d < 60
        THEN Raised("ValueError", "Invalid format specifier")
        ELSE LET SS == ra_s \div 100
                 s_digits == d \div 10 - 6
                 s == ((ra_s % 100) * Pow10(s_digits)) \div 100
             IN  Returned(ZeroPad(2, ra_h) \o ZeroPad(2, ra_m) \o ZeroPad(2, SS)
                          \o <<".">> \o ZeroPad(s_digits, s))

ra_iau_format(ra, digits) ==
    IF invalid_digits(digits)
    THEN Raised("ValueError", "Invalid digits")
    ELSE ra_iau_format_scalar(ra, digits)

dec_iau_format_scalar(dec, digits) ==
    LET dec_sign == IF dec >= 0 THEN "+" ELSE "-"
        a == IF dec >= 0 THEN dec ELSE -dec
        dec_d == a \div 360000
        dec_m == (a % 360000) \div 6000
        dec_s == a % 6000
        tenths == IF dec >= 0 THEN a \div 36000 ELSE -(a \div 36000)
        d == digits.v
    IN  IF d = 20 THEN Returned(<<dec_sign>> \o ZeroPad(2, dec_d))
        ELSE IF d = 30 THEN Returned(SignedZeroPad(4, tenths))
        ELSE IF d = 40
        THEN Returned(<<dec_sign>> \o ZeroPad(2, dec_d) \o ZeroPad(2, dec_m))
        ELSE IF d = 50
        THEN Returned(<<dec_sign>> \o ZeroPad(2, dec_d) \o ZeroPad(2, dec_m) \o <<".">>
                      \o ZeroPad(1, dec_s \div 600))
        ELSE IF d = 60
        THEN Returned(<<dec_sign>> \o ZeroPad(2, dec_d) \o ZeroPad(2, dec_m) \o <<".">>
                      \o ZeroPad(2, dec_s \div 100))
        ELSE IF d % 10 # 0 \/ d < 60
        THEN Raised("ValueError", "Invalid format specifier")
        ELSE LET SS == dec_s \div 100
                 s_digits == d \div 10 - 6
                 s == ((dec_s % 100) * Pow10(s_digits)) \div 100
             IN  Returned(<<dec_sign>> \o ZeroPad(2, dec_d) \o ZeroPad(2, dec_m)
                          \o ZeroPad(2, SS) \o <<".">> \o ZeroPad(s_digits, s))

dec_iau_format(dec, digits) ==
    IF invalid_digits(digits)
    THEN Raised("ValueError", "Invalid digits")
    ELSE dec_iau_format_scalar(dec, digits)

\* A table is its column names and its rows; a row has a name and the two
\* coordinate values in whole degrees.  SkyCoord keeps longitudes in
\* [0, 360) and the box is cut in the frame the table's columns are in.
SkyTable(colnames, rows) == [colnames |-> colnames, rows |-> rows]

skycoord_from_table(table) ==
    IF {"RAJ2000", "DEJ2000"} \subseteq table.colnames \/ {"RA", "DEC"} \subseteq table.colnames
    THEN [outcome |-> "ok", frame |-> "icrs",
          lon |-> [k \in 1..Len(table.rows) |-> table.rows[k].lon % 360],
          lat |-> [k \in 1..Len(table.rows) |-> table.rows[k].lat]]
    ELSE IF {"GLON", "GLAT"} \subseteq table.colnames
    THEN [outcome |-> "ok", frame |-> "galactic",
          lon |-> [k \in 1..Len(table.rows) |-> table.rows[k].lon % 360],
          lat |-> [k \in 1..Len(table.rows) |-> table.rows[k].lat]]
    ELSE [outcome |-> "KeyError", frame |-> "", lon |-> <<>>, lat |-> <<>>]

\* lon.wrap_at(180 deg): into [-180, 180)
wrap_at_180(lon) == IF lon >= 180 THEN lon - 360 ELSE lon

\* table[mask]
RowsWhere(table, mask) ==
    LET keep == {k \in 1..Len(table.rows) : mask[k]}
        RECURSIVE pick(_)
        pick(k) == IF k > Len(table.rows) THEN <<>>
                   ELSE (IF k \in keep THEN <<table.rows[k]>> ELSE <<>>) \o pick(k + 1)
    IN  pick(1)

select_sky_box_lon_inverted(table, lon_lim, lat_lim, inverted) ==
    LET skycoord == skycoord_from_table(table)
        lon == [k \in 1..Len(skycoord.lon) |->
                   IF lon_lim[1] < 0 \/ lon_lim[2] < 0
                   THEN wrap_at_180(skycoord.lon[k]) ELSE skycoord.lon[k]]
        lon_mask == [k \in 1..Len(lon) |-> lon_lim[1] <= lon[k] /\ lon[k] < lon_lim[2]]
        lat_mask == [k \in 1..Len(lon) |->
                        lat_lim[1] <= skycoord.lat[k] /\ skycoord.lat[k] < lat_lim[2]]
        mask == [k \in 1..Len(lon) |->
                    IF inverted THEN ~lon_mask[k] /\ lat_mask[k]
                    ELSE lon_mask[k] /\ lat_mask[k]]
    IN  IF skycoord.outcome # "ok"
        THEN [outcome |-> skycoord.outcome, rows |-> <<>>]
        ELSE [outcome |-> "ok", rows |-> RowsWhere(table, mask)]

select_sky_box(table, lon_lim, lat_lim, inverted) ==
    LET skycoord == skycoord_from_table(table)
        lon == [k \in 1..Len(skycoord.lon) |->
                   IF lon_lim[1] < 0 \/ lon_lim[2] < 0
                   THEN wrap_at_180(skycoord.lon[k]) ELSE skycoord.lon[k]]
        lon_mask == [k \in 1..Len(lon) |-> lon_lim[1] <= lon[k] /\ lon[k] < lon_lim[2]]
        lat_mask == [k \in 1..Len(lon) |->
                        lat_lim[1] <= skycoord.lat[k] /\ skycoord.lat[k] < lat_lim[2]]
        mask == [k \in 1..Len(lon) |->
                    IF inverted THEN ~(lon_mask[k] /\ lat_mask[k])
                    ELSE lon_mask[k] /\ lat_mask[k]]
    IN  IF skycoord.outcome # "ok"
        THEN [outcome |-> skycoord.outcome, rows |-> <<>>]
        ELSE [outcome |-> "ok", rows |-> RowsWhere(table, mask)]

---------------------------------------------------------------------------
(* gammapy/datasets/make.py: make_test_dataset.  disk is what is at        *)
(* fits_path: nothing (NoDisk), a regular file, or a directory with its    *)
(* set of files.  The generated table has the observations 1..n_obs.       *)

RegularFile == [kind |-> "file", files |-> {}]
Directory(files) == [kind |-> "dir", files |-> files]

isdir(d) == d # NoDisk /\ d.kind = "dir"

DatasetFile(filetype, obs_id) == [filetype |-> filetype, obs_id |-> obs_id]

\* everything after the output folder exists: runinfo.fits, the scheme
\* test, then per observation the event list and the effective-area table
generate_dataset(d, observatory_name, n_obs) ==
    LET with_runinfo == Directory(d.files \cup {DatasetFile("runinfo", 0)})
    IN  IF observatory_name # "HESS"
        THEN [outcome |-> "ValueError", disk |-> with_runinfo]
        ELSE [outcome |-> "ok",
              disk |-> Directory(with_runinfo.files
                         \cup {DatasetFile("events", obs_id) : obs_id \in 1..n_obs}
                         \cup {DatasetFile("effective area", obs_id) : obs_id \in 1..n_obs})]

make_test_dataset_keep(d, overwrite, observatory_name, n_obs) ==
    IF ~isdir(d)
    THEN IF d # NoDisk
         THEN [outcome |-> "OSError", disk |-> d]
         ELSE generate_dataset(Directory({}), observatory_name, n_obs)
    ELSE IF overwrite
    THEN generate_dataset(d, observatory_name, n_obs)
    ELSE [outcome |-> "RuntimeError", disk |-> d]

make_test_dataset(d, overwrite, observatory_name, n_obs) ==
    IF ~isdir(d)
    THEN IF d # NoDisk
         THEN [outcome |-> "OSError", disk |-> d]
         ELSE generate_dataset(Directory({}), observatory_name, n_obs)
    ELSE IF overwrite
    THEN generate_dataset(Directory({}), observatory_name, n_obs)
    ELSE [outcome |-> "RuntimeError", disk |-> d]

---------------------------------------------------------------------------
(* examples/plot_bg_cube_model_comparison.py: the lookup between group     *)
(* IDs and the 'michi' altitude and azimuth bin IDs.                       *)

group_ids_selection == <<14, 15, 20, 21, 26, 27>>

altitude_edges == <<0, 20, 23, 27, 30, 33, 37, 40, 44, 49, 53, 58, 64, 72, 90>>
azimuth_edges == <<-90, 90, 270>>

\* obs_groups_michi.n_groups: one group per (ALT, AZ) bin
n_rows == (Len(altitude_edges) - 1) * (Len(azimuth_edges) - 1)

LookupRow(group_id, alt_id, az_id) ==
    [GROUP_ID |-> group_id, ALT_ID |-> alt_id, AZ_ID |-> az_id]

\* the two nested loops, alt_id outside and az_id inside, writing row
\* count_groups (rows are numbered from 0 in the script, from 1 here)
RECURSIVE lookup_loop(_, _, _, _)
lookup_loop(table, alt_id, az_id, count_groups) ==
    IF alt_id >= Len(altitude_edges) - 1 THEN table
    ELSE IF az_id >= Len(azimuth_edges) - 1
    THEN lookup_loop(table, alt_id + 1, 0, count_groups)
    ELSE lookup_loop([table EXCEPT ![count_groups + 1] =
                          LookupRow(count_groups, alt_id, az_id)],
                     alt_id, az_id + 1, count_groups + 1)

lookup_obs_groups_michi ==
    lookup_loop([k \in 1..n_rows |-> LookupRow(0, 0, 0)], 0, 0, 0)

\* np.where(group_ids == group_id)[0][0]: the first matching row
look_obs_groups_michi_swapped(group_id) ==
    LET group_index == {k \in 1..Len(lookup_obs_groups_michi) :
                            lookup_obs_groups_michi[k].GROUP_ID = group_id}
    IN  IF group_index = {} THEN [outcome |-> "IndexError", i_alt |-> 0, i_az |-> 0]
        ELSE LET row == CHOOSE k \in group_index : \A l \in group_index : k <= l
             IN  [outcome |-> "ok", i_alt |-> lookup_obs_groups_michi[row].AZ_ID,
                  i_az |-> lookup_obs_groups_michi[row].ALT_ID]

look_obs_groups_michi(group_id) ==
    LET group_index == {k \in 1..Len(lookup_obs_groups_michi) :
                            lookup_obs_groups_michi[k].GROUP_ID = group_id}
    IN  IF group_index = {} THEN [outcome |-> "IndexError", i_alt |-> 0, i_az |-> 0]
        ELSE LET row == CHOOSE k \in group_index : \A l \in group_index : k <= l
             IN  [outcome |-> "ok", i_alt |-> lookup_obs_groups_michi[row].ALT_ID,
                  i_az |-> lookup_obs_groups_michi[row].AZ_ID]

\* the loop of plot_bg_cube_model_comparison over the groups 0..n_groups-1:
\* the groups of the selection (all groups when it is empty), each with the
\* bin IDs looked up for it
RECURSIVE compared_groups(_, _)
compared_groups(selection, group) ==
    IF group >= n_rows THEN <<>>
    ELSE LET groups_to_compare ==
                 IF Len(selection) # 0 THEN {selection[k] : k \in 1..Len(selection)}
                 ELSE 0..(n_rows - 1)
             found == look_obs_groups_michi(group)
         IN  (IF group \in groups_to_compare
              THEN << [group |-> group, i_alt |-> found.i_alt, i_az |-> found.i_az] >>
              ELSE <<>>) \o compared_groups(selection, group + 1)

---------------------------------------------------------------------------
(* Inputs of the exploration *)

ObservatoryNames == {"HESS", "CTA"}
Methods == {"default", "michi", "adaptive"}

\* edge vectors handed to set_cube_binning (energy in 1e-4 dex, angles in 0.01 rad)
EnergyEdgeChoices == { Edges(<<0, 10000, 20000>>, 1), Edges(<<0, 5000, 10000>>, 1) }
DetYEdgeChoices == { Edges(<<-1, 0, 1>>, 1) }
DetXEdgeChoices == { Edges(<<-1, 0, 1>>, 1), Edges(<<-1, 0, 2, 3>>, 1) }

\* observation tables handed to define_cube_binning
BinningTables ==
    {ObsTable("HESS", Repeat(id, n)) : id \in ObsIds, n \in 0..MaxNObs}
    \cup {ObsTable(name, rows) : name \in ObservatoryNames, rows \in SeqsUpTo(StoreIds, MaxObs)}

\* background rates written into the background cube by the caller, one
\* (Y, X) image per energy bin
BgImages(ny, nx) ==
    { [y \in 1..ny |-> [x \in 1..nx |-> 0]],
      [y \in 1..ny |-> [x \in 1..nx |-> 1]],
      [y \in 1..ny |-> [x \in 1..nx |-> IF y = 1 /\ x = 1 THEN 1 ELSE 0]],
      [y \in 1..ny |-> [x \in 1..nx |-> y + x - 2]] }

\* observation tables handed to fill_events
FillTables ==
    {ObsTable("HESS", rows) : rows \in SeqsUpTo(ObsIds, MaxObs)}
    \cup {ObsTable(name, <<id>>) : name \in ObservatoryNames, id \in ObsIds}

\* largest magnitude the exact integer arithmetic of one smooth call may reach
MaxMagnitude == 2000000000

RECURSIVE Pow(_, _)
Pow(b, n) == IF n = 0 THEN 1 ELSE b * Pow(b, n - 1)

FitsProduct(a, b) == IF a = 0 THEN TRUE ELSE b <= MaxMagnitude \div a

\* the numerators and denominators smooth(m) computes stay below MaxMagnitude
SmoothFits(m) ==
    LET bg == m.background_cube
        w == Pow(SumImage(k5a), n_smooth_of(SumData(m.counts_cube.data)))
        sa == SumImage(bin_area(bg))
        b == MaxSeq([e \in 1..Len(bg.data) |-> MaxImage(bg.data[e])])
        d == MaxSeq(bg.den)
    IN  /\ FitsProduct(w, sa)
        /\ FitsProduct(w * sa, b)
        /\ FitsProduct(w * sa * b, Max2(b, d))

---------------------------------------------------------------------------
(* State machine.  set_cube_binning and define_cube_binning are class      *)
(* methods that build a new model from their arguments alone, so each      *)
(* behaviour starts with one of them.                                      *)
(*   model         the CubeBackgroundModel (NoModel before construction)   *)
(*   last          the most recent call and how it ended                   *)
(*   binning_args  the arguments of the define_cube_binning call           *)
(*   filled        the observations fill_events has accumulated into the   *)
(*                 model since it was created, in processing order         *)
(*   file          the FITS file at the path given to write and read       *)
(*   io_format     the format argument of the last write or read           *)
(*   call          the arguments of the last call of a catalog utility or  *)
(*                 of a function of the comparison script                  *)
(*   result        what that call returned or raised                       *)
(*   disk          the directory at fits_path of make_test_dataset         *)

Last(op, outcome) == [op |-> op, outcome |-> outcome]

Init ==
    /\ model = NoModel
    /\ last = Last("none", "ok")
    /\ binning_args = NoArgs
    /\ filled = <<>>
    /\ file = NoFile
    /\ io_format = "table"
    /\ call = NoArgs
    /\ result = NoArgs
    /\ disk = NoDisk

SetCubeBinning ==
    \E energy_edges \in EnergyEdgeChoices, dety_edges \in DetYEdgeChoices,
       detx_edges \in DetXEdgeChoices :
        /\ model = NoModel
        /\ model' = set_cube_binning(detx_edges, dety_edges, energy_edges)
        /\ last' = Last("set_cube_binning", "ok")
        /\ filled' = <<>>
        /\ UNCHANGED <<binning_args, file, io_format, call, result, disk>>

DefineCubeBinning ==
    \E observation_table \in BinningTables, method \in Methods :
        LET r == define_cube_binning(observation_table, method)
        IN  /\ last.op = "none"
            /\ model' = IF r.outcome = "ok" THEN r.model ELSE model
            /\ last' = Last("define_cube_binning", r.outcome)
            /\ binning_args' = [observation_table |-> observation_table,
                                method |-> method]
            /\ filled' = IF r.outcome = "ok" THEN <<>> ELSE filled
            /\ UNCHANGED <<file, io_format, call, result, disk>>

FillEvents ==
    \E observation_table \in FillTables :
        LET r == fill_events(model, observation_table)
        IN  /\ model # NoModel
            /\ Len(filled) + Len(observation_table.rows) <= MaxObs
            /\ model' = r.model
            /\ last' = Last("fill_events", r.outcome)
            /\ filled' = filled \o SubSeq(observation_table.rows, 1, r.n_done)
            /\ UNCHANGED <<binning_args, file, io_format, call, result, disk>>

\* the caller stores a background rate cube (counts / livetime / bin volume
\* is computed outside the class)
SetBackgroundData ==
    /\ model # NoModel
    /\ LET sh == Shape(model.background_cube)
       IN  \E data \in [1..sh[1] -> BgImages(sh[2], sh[3])] :
             /\ model' = [model EXCEPT !.background_cube.data = data,
                                       !.background_cube.den = [e \in 1..sh[1] |-> 1]]
             /\ last' = Last("set_background", "ok")
             /\ UNCHANGED <<binning_args, filled, file, io_format, call, result, disk>>

Smooth ==
    /\ model # NoModel
    /\ SmoothFits(model)
    /\ model' = smooth(model)
    /\ last' = Last("smooth", "ok")
    /\ UNCHANGED <<binning_args, filled, file, io_format, call, result, disk>>

Next == SetCubeBinning \/ FillEvents \/ SetBackgroundData \/ Smooth

Spec == Init /\ [][Next]_vars

NextBinning == DefineCubeBinning

SpecBinning == Init /\ [][NextBinning]_vars

\* smooth() on models whose counts cube holds the given total (all of it in
\* the first bin) and whose background cube holds caller-supplied rates
CountTotals == {0, 99999, 100000, 999999, 1000000, 1000001}

with_counts(m, total) ==
    LET sh == Shape(m.counts_cube)
    IN  [m EXCEPT !.counts_cube.data =
            [e \in 1..sh[1] |-> [y \in 1..sh[2] |-> [x \in 1..sh[3] |->
                IF e = 1 /\ y = 1 /\ x = 1 THEN total ELSE 0]]]]

InitSmooth ==
    \E energy_edges \in EnergyEdgeChoices, dety_edges \in DetYEdgeChoices,
       detx_edges \in DetXEdgeChoices, total \in CountTotals :
        LET m == with_counts(set_cube_binning(detx_edges, dety_edges, energy_edges),
                             total)
            sh == Shape(m.background_cube)
        IN  \E data \in [1..sh[1] -> BgImages(sh[2], sh[3])] :
              /\ model = [m EXCEPT !.background_cube.data = data]
              /\ last = Last("none", "ok")
              /\ binning_args = NoArgs
              /\ filled = <<>>
              /\ file = NoFile
              /\ io_format = "table"
              /\ call = NoArgs
              /\ result = NoArgs
              /\ disk = NoDisk

NextSmooth == Smooth

SpecSmooth == InitSmooth /\ [][NextSmooth]_vars

\* write and read on models whose counts and livetime cubes are empty or not
SchemeNames == {"bg_counts_cube", "bg_livetime_cube", "bg_cube"}
WriteFormats == {"table", "image", "ascii"}
IOCountTotals == {0, 3}
IOLivetimes == {0, 2}

with_livetime(m, livetime) ==
    LET sh == Shape(m.livetime_cube)
    IN  [m EXCEPT !.livetime_cube.data =
            [e \in 1..sh[1] |-> [y \in 1..sh[2] |-> [x \in 1..sh[3] |-> livetime]]]]

InitIO ==
    \E energy_edges \in EnergyEdgeChoices, dety_edges \in DetYEdgeChoices,
       detx_edges \in DetXEdgeChoices, total \in IOCountTotals,
       livetime \in IOLivetimes :
        LET m == with_livetime(
                     with_counts(set_cube_binning(detx_edges, dety_edges, energy_edges),
                                 total), livetime)
            sh == Shape(m.background_cube)
        IN  \E data \in [1..sh[1] -> BgImages(sh[2], sh[3])] :
              /\ model = [m EXCEPT !.background_cube.data = data]
              /\ last = Last("none", "ok")
              /\ binning_args = NoArgs
              /\ filled = <<>>
              /\ file = NoFile
              /\ io_format = "table"
              /\ call = NoArgs
              /\ result = NoArgs
              /\ disk = NoDisk

Write ==
    \E format \in WriteFormats :
        LET r == write(model, format)
        IN  /\ model # NoModel
            /\ file' = IF r.outcome = "ok" THEN r.file ELSE file
            /\ last' = Last("write", r.outcome)
            /\ io_format' = format
            /\ UNCHANGED <<model, binning_args, filled, call, result, disk>>

\* the file at the path is replaced by one of an older layout that lacks some
\* of the tables
OldFormatFile ==
    /\ file # NoFile
    /\ \E drop \in (SUBSET SchemeNames) \ {{}} :
         /\ file' = SelectSeq(file, LAMBDA h : h.name \notin drop)
         /\ file' # file
    /\ last' = Last("old_format_file", "ok")
    /\ UNCHANGED <<model, binning_args, filled, io_format, call, result, disk>>

Read ==
    LET r == read(file)
    IN  /\ model' = IF r.outcome = "ok" THEN r.model ELSE model
        /\ last' = Last("read", r.outcome)
        /\ io_format' = "table"
        /\ UNCHANGED <<file, binning_args, filled, call, result, disk>>

NextIO == Write \/ OldFormatFile \/ Read

SpecIO == InitIO /\ [][NextIO]_vars

\* one fill_events call on a freshly binned model whose background cube the
\* caller may have written, the table listing observations of the store and
\* observations whose files are absent
BgRates == {0, 1}

with_background(m, rate) ==
    LET sh == Shape(m.background_cube)
    IN  [m EXCEPT !.background_cube.data =
            [e \in 1..sh[1] |-> [y \in 1..sh[2] |-> [x \in 1..sh[3] |->
                rate * (e + y + x)]]]]

StoreTables == {ObsTable("HESS", rows) : rows \in SeqsUpTo(StoreIds, MaxObs + 1)}

InitFill ==
    \E energy_edges \in EnergyEdgeChoices, dety_edges \in DetYEdgeChoices,
       detx_edges \in DetXEdgeChoices, rate \in BgRates :
        /\ model = with_background(set_cube_binning(detx_edges, dety_edges,
                                                    energy_edges), rate)
        /\ last = Last("none", "ok")
        /\ binning_args = NoArgs
        /\ filled = <<>>
        /\ file = NoFile
        /\ io_format = "table"
        /\ call = NoArgs
        /\ result = NoArgs
        /\ disk = NoDisk

FillFromStore ==
    \E observation_table \in StoreTables :
        LET r == fill_events(model, observation_table)
        IN  /\ last.op = "none"
            /\ model' = r.model
            /\ last' = Last("fill_events", r.outcome)
            /\ filled' = SubSeq(observation_table.rows, 1, r.n_done)
            /\ UNCHANGED <<binning_args, file, io_format, call, result, disk>>

NextFill == FillFromStore

SpecFill == InitFill /\ [][NextFill]_vars

\* ra_iau_format and dec_iau_format on angles and digits arguments
RaChoices == {0, 1, 99, 306938, 2007194, 3599999, 3600000, 4500000, 8639999}
DecChoices == {0, -1, 18000, -18000, 7925220, -15279380, 32399999, -32399999,
               32400000, -32400000}
DigitsChoices ==
    {IntDigits(n) : n \in 0..8} \cup {FloatDigits(t) : t \in {15, 20, 25, 60}}

\* tables and boxes handed to select_sky_box
SkyRow(name, lon, lat) == [Source_Name |-> name, lon |-> lon, lat |-> lat]

SkyRows == << SkyRow("a", 0, 0), SkyRow("b", 350, -10), SkyRow("c", 150, -50),
              SkyRow("d", 300, 0), SkyRow("e", 180, 89), SkyRow("f", -10, 5),
              SkyRow("g", 299, -1) >>

ColumnChoices == { {"Source_Name", "RAJ2000", "DEJ2000"}, {"Source_Name", "RA", "DEC"},
                   {"Source_Name", "GLON", "GLAT"}, {"Source_Name", "GLON"} }

SkyTables ==
    {SkyTable(c, rows) : c \in ColumnChoices,
                         rows \in {SkyRows, SubSeq(SkyRows, 1, 3), <<>>}}

LonLimChoices == { <<150, 300>>, <<-20, 20>>, <<0, 360>>, <<-180, 180>>, <<300, 150>> }
LatLimChoices == { <<-50, 0>>, <<-90, 90>>, <<0, 0>> }

InitCatalog ==
    /\ model = NoModel
    /\ last = Last("none", "ok")
    /\ binning_args = NoArgs
    /\ filled = <<>>
    /\ file = NoFile
    /\ io_format = "table"
    /\ call = NoArgs
    /\ result = NoArgs
    /\ disk = NoDisk

RaIauFormat ==
    \E ra \in RaChoices, digits \in DigitsChoices :
        /\ call' = [ra |-> ra, digits |-> digits]
        /\ result' = ra_iau_format(ra, digits)
        /\ last' = Last("ra_iau_format", result'.outcome)
        /\ UNCHANGED <<model, binning_args, filled, file, io_format, disk>>

DecIauFormat ==
    \E dec \in DecChoices, digits \in DigitsChoices :
        /\ call' = [dec |-> dec, digits |-> digits]
        /\ result' = dec_iau_format(dec, digits)
        /\ last' = Last("dec_iau_format", result'.outcome)
        /\ UNCHANGED <<model, binning_args, filled, file, io_format, disk>>

SelectSkyBox ==
    \E table \in SkyTables, lon_lim \in LonLimChoices, lat_lim \in LatLimChoices,
       inverted \in BOOLEAN :
        /\ call' = [table |-> table, lon_lim |-> lon_lim, lat_lim |-> lat_lim,
                    inverted |-> inverted]
        /\ result' = select_sky_box(table, lon_lim, lat_lim, inverted)
        /\ last' = Last("select_sky_box", result'.outcome)
        /\ UNCHANGED <<model, binning_args, filled, file, io_format, disk>>

NextCatalog == RaIauFormat \/ DecIauFormat \/ SelectSkyBox

SpecCatalog == InitCatalog /\ [][NextCatalog]_vars

\* make_test_dataset on a path that is absent, a regular file, or a
\* directory left by an earlier run or by somebody else
StaleFile == DatasetFile("events", 0)

InitialDisks ==
    {NoDisk, RegularFile, Directory({}), Directory({StaleFile}),
     Directory({StaleFile, DatasetFile("runinfo", 0)})}

InitDataset ==
    /\ model = NoModel
    /\ last = Last("none", "ok")
    /\ binning_args = NoArgs
    /\ filled = <<>>
    /\ file = NoFile
    /\ io_format = "table"
    /\ call = NoArgs
    /\ result = NoArgs
    /\ disk \in InitialDisks

MakeTestDataset ==
    \E overwrite \in BOOLEAN, observatory_name \in ObservatoryNames,
       n_obs \in 0..(2 * MaxObs) :
        LET r == make_test_dataset(disk, overwrite, observatory_name, n_obs)
        IN  /\ call' = [overwrite |-> overwrite, observatory_name |-> observatory_name,
                        n_obs |-> n_obs]
            /\ result' = [outcome |-> r.outcome]
            /\ disk' = r.disk
            /\ last' = Last("make_test_dataset", r.outcome)
            /\ UNCHANGED <<model, binning_args, filled, file, io_format>>

NextDataset == MakeTestDataset

SpecDataset == InitDataset /\ [][NextDataset]_vars

\* the comparison script run once with a selection of group IDs
Selections == SeqsUpTo(0..n_rows, MaxObs) \cup {group_ids_selection}

InitScript ==
    /\ model = NoModel
    /\ last = Last("none", "ok")
    /\ binning_args = NoArgs
    /\ filled = <<>>
    /\ file = NoFile
    /\ io_format = "table"
    /\ call = NoArgs
    /\ result = NoArgs
    /\ disk = NoDisk

PlotComparison ==
    \E selection \in Selections :
        /\ last.op = "none"
        /\ call' = [group_ids_selection |-> selection]
        /\ result' = compared_groups(selection, 0)
        /\ last' = Last("plot_bg_cube_model_comparison", "ok")
        /\ UNCHANGED <<model, binning_args, filled, file, io_format, disk>>

NextScript == PlotComparison

SpecScript == InitScript /\ [][NextScript]_vars

---------------------------------------------------------------------------
(* Properties *)

Created == model # NoModel
BinningDone == last.op = "define_cube_binning" /\ last.outcome = "ok"
FillDone == last.op = "fill_events" /\ last.outcome = "ok"

SetMin(S) == CHOOSE m \in S : \A x \in S : m <= x

Threshold(id) == AeffFile(id).LO_THRES
Livetime(id) == EventListFile(id).observation_live_time_duration
Events(id) == EventListFile(id).events

StrictlyIncreasing(edges) ==
    \A k \in 1..(Len(edges.v) - 1) : edges.v[k] < edges.v[k + 1]

EdgesOf(cube) == << cube.energy_edges, cube.coordy_edges, cube.coordx_edges >>
BinCounts(cube) ==
    << NBins(cube.energy_edges), NBins(cube.coordy_edges), NBins(cube.coordx_edges) >>

\* thresholds of the observations of the table define_cube_binning was given
CallRows == binning_args.observation_table.rows
CallThresholds == {Threshold(CallRows[i]) : i \in 1..Len(CallRows)}

(* ---- C1 ---- *)

C1_ExpectedShape(n_obs) ==
    IF n_obs >= 100 THEN <<20, 60, 60>>
    ELSE LET k == (n_obs \div 10) - 10
         IN  <<20 + k, 60 + 4 * k, 60 + 4 * k>>

\* C1: whenever define_cube_binning returns a model, its bin counts
\* (energy, Y, X) depend on n_obs alone: (20, 60, 60) for n_obs >= 100 and
\* (20 + k, 60 + 4k, 60 + 4k) with k = floor(n_obs/10) - 10 below 100; n_obs =
\* 50, 99, 100 give (15, 40, 40), (19, 56, 56), (20, 60, 60).
C1_BinCounts ==
    BinningDone =>
        LET n_obs == Len(CallRows)
            shape == BinCounts(model.counts_cube)
        IN  /\ shape = C1_ExpectedShape(n_obs)
            /\ Shape(model.counts_cube) = shape
            /\ n_obs = 50 => shape = <<15, 40, 40>>
            /\ n_obs = 99 => shape = <<19, 56, 56>>
            /\ n_obs = 100 => shape = <<20, 60, 60>>

C1_Witness ==
    /\ BinningDone
    /\ Len(CallRows) = 99
    /\ Shape(model.counts_cube) = <<19, 56, 56>>

(* ---- C2, C3 ---- *)

\* the lower energy bound define_cube_binning uses for its arguments
LowerBound ==
    IF binning_args.method = "michi"
    THEN SetMin({ThresholdInit} \cup CallThresholds)
    ELSE EnergyMinDefault

C2_LengthsAndEnds ==
    LET c == model.counts_cube
        expected == C1_ExpectedShape(Len(CallRows))
    IN  /\ Len(c.energy_edges.v) = expected[1] + 1
        /\ Len(c.coordy_edges.v) = expected[2] + 1
        /\ Len(c.coordx_edges.v) = expected[3] + 1
        /\ c.energy_edges.d > 0 /\ c.coordy_edges.d > 0 /\ c.coordx_edges.d > 0
        /\ c.energy_edges.v[1] = LowerBound * c.energy_edges.d
        /\ c.energy_edges.v[Len(c.energy_edges.v)] = EnergyMax * c.energy_edges.d

\* C2: for every (non-empty) group and either method the three edge vectors
\* are strictly increasing, have (bins + 1) entries, and the energy edges run
\* from the chosen lower bound to 80 TeV.
C2_EdgeVectors ==
    (BinningDone /\ Len(CallRows) >= 1) =>
        /\ C2_LengthsAndEnds
        /\ StrictlyIncreasing(model.counts_cube.energy_edges)
        /\ StrictlyIncreasing(model.counts_cube.coordy_edges)
        /\ StrictlyIncreasing(model.counts_cube.coordx_edges)

\* C3: the lower energy bound is 0.1 TeV under 'default' and, under the
\* adaptive method, exactly the minimum threshold of the observations of the
\* group, whatever the thresholds are.
C3_LowerBound ==
    (BinningDone /\ Len(CallRows) >= 1) =>
        LET energy_edges == model.counts_cube.energy_edges
        IN  energy_edges.v[1] =
                (IF binning_args.method = "michi" THEN SetMin(CallThresholds)
                 ELSE EnergyMinDefault) * energy_edges.d

(* ---- C4 ---- *)

WellShaped(cube) ==
    /\ Len(cube.data) = NBins(cube.energy_edges)
    /\ Len(cube.den) = NBins(cube.energy_edges)
    /\ \A e \in 1..Len(cube.data) :
         /\ Len(cube.data[e]) = NBins(cube.coordy_edges)
         /\ \A y \in 1..Len(cube.data[e]) :
              Len(cube.data[e][y]) = NBins(cube.coordx_edges)

ZeroFilled(cube) ==
    \A e \in 1..Len(cube.data) :
        /\ cube.den[e] = 1
        /\ \A y \in 1..Len(cube.data[e]) : \A x \in 1..Len(cube.data[e][y]) :
             cube.data[e][y][x] = 0

C4_State(m) ==
    /\ EdgesOf(m.counts_cube) = EdgesOf(m.livetime_cube)
    /\ EdgesOf(m.counts_cube) = EdgesOf(m.background_cube)
    /\ WellShaped(m.counts_cube)
    /\ WellShaped(m.livetime_cube)
    /\ WellShaped(m.background_cube)

InRange(value, edges) ==
    /\ edges.v[1] <= value * edges.d
    /\ value * edges.d <= edges.v[Len(edges.v)]

\* the events of an observation inside its energy window [thr, thr x 1e6]
Selected(id) ==
    {k \in 1..Len(Events(id)) :
        /\ Threshold(id) <= Events(id)[k].ENERGY
        /\ Events(id)[k].ENERGY <= Threshold(id) + EnergyWindow}

\* ... that also lie within the cube's first and last edge on every axis
InsideCube(id, cube) ==
    {k \in Selected(id) :
        /\ InRange(Events(id)[k].ENERGY, cube.energy_edges)
        /\ InRange(Events(id)[k].DETY, cube.coordy_edges)
        /\ InRange(Events(id)[k].DETX, cube.coordx_edges)}

\* C5 as stated: every accumulated observation has added the number of its
\* events inside the energy window, so the total of the counts cube is the sum
\* of these numbers.
C5_Original ==
    Created =>
        SumData(model.counts_cube.data)
            = SumSeq([i \in 1..Len(filled) |-> Cardinality(Selected(filled[i]))])

\* C5 (amended): every observation fill_events has processed has added the
\* number of its events that lie in the energy window and inside the cube (from
\* the first to the last edge on each axis); events outside the cube's edges
\* are not counted.
C5_CountsInsideCube ==
    Created =>
        SumData(model.counts_cube.data)
            = SumSeq([i \in 1..Len(filled) |->
                        Cardinality(InsideCube(filled[i], model.counts_cube))])

C5_Witness ==
    /\ Created
    /\ FillDone
    /\ Len(filled) = 1
    /\ SumData(model.counts_cube.data) > 0
    /\ InsideCube(filled[1], model.counts_cube) # Selected(filled[1])

(* ---- C6 ---- *)

Gate(id, cube, e) ==
    IF cube.energy_edges.v[e + 1] <= Threshold(id) * cube.energy_edges.d
    THEN 0 ELSE Livetime(id)

\* C6: every processed observation adds to each bin of the livetime cube zero
\* when the bin's upper energy edge is <= its threshold and its full livetime
\* otherwise, whatever the bin's Y and X indices.
C6_LivetimeGating ==
    Created =>
        \A e \in 1..Len(model.livetime_cube.data) :
          \A y \in 1..Len(model.livetime_cube.data[e]) :
            \A x \in 1..Len(model.livetime_cube.data[e][y]) :
              model.livetime_cube.data[e][y][x]
                  = SumSeq([i \in 1..Len(filled) |->
                              Gate(filled[i], model.livetime_cube, e)])

C6_Witness ==
    /\ Created
    /\ FillDone
    /\ Len(filled) = 1
    /\ model.livetime_cube.energy_edges.v[2]
           = Threshold(filled[1]) * model.livetime_cube.energy_edges.d
    /\ model.livetime_cube.data[1][2][1] = 0
    /\ model.livetime_cube.data[2][2][1] = Livetime(filled[1])

(* ---- C7, C8 ---- *)

HessTable(rows) == ObsTable("HESS", rows)

SameFill(m1, m2) ==
    /\ m1.counts_cube.data = m2.counts_cube.data
    /\ m1.livetime_cube.data = m2.livetime_cube.data

InBin(value, edges, b) ==
    /\ edges.v[b] <= value * edges.d
    /\ \/ value * edges.d < edges.v[b + 1]
       \/ b = NBins(edges) /\ value * edges.d = edges.v[b + 1]

\* the events of an observation that belong to bin (e, y, x)
BinEvents(id, cube, e, y, x) ==
    {k \in Selected(id) :
        /\ InBin(Events(id)[k].ENERGY, cube.energy_edges, e)
        /\ InBin(Events(id)[k].DETY, cube.coordy_edges, y)
        /\ InBin(Events(id)[k].DETX, cube.coordx_edges, x)}

C7_PerBin ==
    \A e \in 1..Len(model.counts_cube.data) :
      \A y \in 1..Len(model.counts_cube.data[e]) :
        \A x \in 1..Len(model.counts_cube.data[e][y]) :
          model.counts_cube.data[e][y][x]
              = SumSeq([i \in 1..Len(filled) |->
                          Cardinality(BinEvents(filled[i], model.counts_cube, e, y, x))])

\* C7: fill_events adds to the bins (each bin holds the sum of the
\* contributions of the observations accumulated so far), and filling with
\* group A and then with group B leaves the cubes one call with A followed by
\* B would leave.
C7_Accumulates ==
    Created =>
        /\ C7_PerBin
        /\ \A a \in ObsIds, b \in ObsIds :
             SameFill(fill_events(fill_events(model, HessTable(<<a>>)).model,
                                  HessTable(<<b>>)).model,
                      fill_events(model, HessTable(<<a, b>>)).model)

\* C8: for every permutation of a group fill_events has the same outcome:
\* the same success or failure and the same counts and livetime cubes.
C8_OrderIrrelevant ==
    Created =>
        \A a \in ObsIds, b \in ObsIds :
            LET r1 == fill_events(model, HessTable(<<a, b>>))
                r2 == fill_events(model, HessTable(<<b, a>>))
            IN  /\ r1.outcome = r2.outcome
                /\ SameFill(r1.model, r2.model)

(* ---- C9 ---- *)

\* the spatial integral of energy slice e as a fraction in lowest terms, in
\* units of 1e-4 sr / (coordy_edges.d * coordx_edges.d); <<0, 0>> is NaN
SliceIntegral(cube, e) ==
    LET num == SumSeq([y \in 1..Len(cube.data[e]) |->
                 SumSeq([x \in 1..Len(cube.data[e][y]) |->
                   cube.data[e][y][x]
                   * (cube.coordy_edges.v[y + 1] - cube.coordy_edges.v[y])
                   * (cube.coordx_edges.v[x + 1] - cube.coordx_edges.v[x])])])
        g == Gcd(num, cube.den[e])
    IN  IF cube.den[e] = 0 THEN <<0, 0>>
        ELSE << num \div g, cube.den[e] \div g >>

\* every slice finite with a non-negative integral, one of them positive
TotalIntegralPositive(cube) ==
    /\ \A e \in 1..Len(cube.data) :
         cube.den[e] > 0 /\ SliceIntegral(cube, e)[1] >= 0
    /\ \E e \in 1..Len(cube.data) : SliceIntegral(cube, e)[1] > 0

\* C9: smooth() on a background cube of strictly positive total integral
\* leaves the spatial integral of every energy slice as it was.
C9_IntegralPreserved ==
    [][ (last'.op = "smooth" /\ Created
         /\ TotalIntegralPositive(model.background_cube)) =>
            \A e \in 1..Len(model.background_cube.data) :
                SliceIntegral(model'.background_cube, e)
                    = SliceIntegral(model.background_cube, e)
      ]_vars

(* ---- C10 ---- *)

RECURSIVE Mirror(_, _)
\* (d c b a | a b c d | d c b a): the pixel an index outside 1..n mirrors
Mirror(i, n) ==
    IF i < 1 THEN Mirror(1 - i, n)
    ELSE IF i > n THEN Mirror(2 * n + 1 - i, n)
    ELSE i

Extended(image, y, x, boundary) ==
    LET ny == Len(image)
        nx == Len(image[1])
    IN  IF boundary = "mirror" THEN image[Mirror(y, ny)][Mirror(x, nx)]
        ELSE IF y < 1 \/ y > ny \/ x < 1 \/ x > nx THEN 0
        ELSE image[y][x]

\* the convolution of an image with k5a, written out over the 25 offsets
Convolved(image, boundary) ==
    [y \in 1..Len(image) |-> [x \in 1..Len(image[y]) |->
        SumSeq([ky \in 1..5 |-> SumSeq([kx \in 1..5 |->
            k5a[ky][kx] * Extended(image, y - (ky - 3), x - (kx - 3), boundary)])])]]

RECURSIVE ConvolvedTimes(_, _, _)
ConvolvedTimes(image, n, boundary) ==
    IF n = 0 THEN image
    ELSE ConvolvedTimes(Convolved(image, boundary), n - 1, boundary)

\* the background cube smooth leaves when its passes are convolutions with the
\* given boundary handling
SmoothedWith(m, boundary) ==
    LET bg == m.background_cube
        n == n_smooth_of(SumData(m.counts_cube.data))
    IN  [e \in 1..Len(bg.data) |->
            LET image_smooth == ConvolvedTimes(bg.data[e], n, boundary)
            IN  rescale(image_smooth, bg.den[e],
                        integral_image(bg.data[e], bin_area(bg)),
                        integral_image(image_smooth, bin_area(bg)))]

SmoothIs(m, m2, boundary) ==
    \A e \in 1..Len(m.background_cube.data) :
        /\ m2.background_cube.data[e] = SmoothedWith(m, boundary)[e].data
        /\ m2.background_cube.den[e] = SmoothedWith(m, boundary)[e].den

\* C10 as stated: each pass convolves the slice with k5a, pixels outside the
\* image counting as zero.
C10_ZeroPadded ==
    [][ (last'.op = "smooth" /\ Created) => SmoothIs(model, model', "zero") ]_vars

\* C10 (amended): each pass convolves the slice with k5a, a pixel outside the
\* image taking the value of its mirror image across the border (scipy's
\* default 'reflect' mode), not zero.
C10_Reflected ==
    [][ (last'.op = "smooth" /\ Created) => SmoothIs(model, model', "mirror") ]_vars

C10_Witness ==
    /\ Created
    /\ last.op = "smooth"
    /\ \E e \in 1..Len(model.background_cube.data) :
         /\ model.background_cube.den[e] > 1
         /\ model.background_cube.data[e][1][1] # model.background_cube.data[e][2][2]

(* ---- C11 ---- *)

C11_Passes(total) ==
    IF total >= 1000000 THEN 3 ELSE IF total >= 100000 THEN 4 ELSE 5

\* the background slices smooth leaves when every slice gets n passes
SmoothedPasses(m, n) ==
    LET bg == m.background_cube
    IN  [e \in 1..Len(bg.data) |->
            LET image_smooth == ConvolvedTimes(bg.data[e], n, "mirror")
            IN  rescale(image_smooth, bg.den[e],
                        integral_image(bg.data[e], bin_area(bg)),
                        integral_image(image_smooth, bin_area(bg)))]

SmoothUses(m, m2, n) ==
    \A e \in 1..Len(m.background_cube.data) :
        /\ m2.background_cube.data[e] = SmoothedPasses(m, n)[e].data
        /\ m2.background_cube.den[e] = SmoothedPasses(m, n)[e].den

\* C11: smooth applies to every energy slice the number of passes given by
\* the total of the counts cube alone: 3 from 1e6 on, 4 from 1e5 on, 5 below;
\* 1,000,000 gives 3, 999,999 gives 4 and 99,999 gives 5.
C11_PassCount ==
    [][ (last'.op = "smooth" /\ Created) =>
          LET total == SumData(model.counts_cube.data)
          IN  /\ SmoothUses(model, model', C11_Passes(total))
              /\ total = 1000000 => SmoothUses(model, model', 3)
              /\ total = 999999 => SmoothUses(model, model', 4)
              /\ total = 99999 => SmoothUses(model, model', 5)
      ]_vars

C11_Witness ==
    /\ Created
    /\ last.op = "smooth"
    /\ SumData(model.counts_cube.data) = 1000000
    /\ \E e \in 1..Len(model.background_cube.data) :
         /\ model.background_cube.den[e] > 1
         /\ model.background_cube.data[e][1][1] # model.background_cube.data[e][2][2]

(* ---- C12 ---- *)

EmptySlice(cube, e) ==
    /\ cube.den[e] # 0
    /\ \A y \in 1..Len(cube.data[e]) : \A x \in 1..Len(cube.data[e][y]) :
         cube.data[e][y][x] = 0

\* C12: a fully empty energy slice (smoothed integral zero) is left zero by
\* smooth: no undefined 0/0 value (NaN) is written into the cube.
C12_EmptySliceDefined ==
    [][ (last'.op = "smooth" /\ Created) =>
          \A e \in 1..Len(model.background_cube.data) :
              EmptySlice(model.background_cube, e) =>
                  EmptySlice(model'.background_cube, e)
      ]_vars

(* ---- C13 ---- *)

\* the cube tables a file holds
Tables(f) == {f[k].name : k \in 1..Len(f)} \cap SchemeNames

\* the file holds a table of this cube: same edges, same data
Stored(f, cube) ==
    \E k \in 1..Len(f) :
        /\ f[k].name = cube.scheme
        /\ f[k].ENERG_LO \o << f[k].ENERG_HI[Len(f[k].ENERG_HI)] >> = cube.energy_edges.v
        /\ f[k].DETY_LO \o << f[k].DETY_HI[Len(f[k].DETY_HI)] >> = cube.coordy_edges.v
        /\ f[k].DETX_LO \o << f[k].DETX_HI[Len(f[k].DETX_HI)] >> = cube.coordx_edges.v
        /\ f[k].data = cube.data
        /\ f[k].den = cube.den

StoredAsImage(f, cube) ==
    /\ Len(f) >= 1
    /\ f[1].name = "PRIMARY"
    /\ f[1].data = cube.data
    /\ f[1].den = cube.den

NonTrivial(m) ==
    SumData(m.counts_cube.data) > 0 /\ SumData(m.livetime_cube.data) > 0

\* C13: write stores the counts, livetime and background cubes together
\* exactly when counts and livetime both have a positive sum and the format is
\* 'table'; with a zero sum or format 'image' it stores the background cube
\* only; an unknown format with non-trivial cubes raises ValueError and
\* writes nothing.
C13_WritePolicy ==
    [][ last'.op = "write" =>
          /\ (NonTrivial(model) /\ io_format' = "table") =>
                /\ last'.outcome = "ok"
                /\ Tables(file') = SchemeNames
                /\ Stored(file', model.counts_cube)
                /\ Stored(file', model.livetime_cube)
                /\ Stored(file', model.background_cube)
          /\ (~NonTrivial(model) /\ io_format' = "table") =>
                /\ last'.outcome = "ok"
                /\ Tables(file') = {"bg_cube"}
                /\ Stored(file', model.background_cube)
          /\ io_format' = "image" =>
                /\ last'.outcome = "ok"
                /\ Tables(file') = {}
                /\ StoredAsImage(file', model.background_cube)
          /\ (NonTrivial(model) /\ io_format' \notin {"table", "image"}) =>
                /\ last'.outcome = "ValueError"
                /\ file' = file
      ]_vars

C13_Witness ==
    /\ last = Last("write", "ok")
    /\ io_format = "table"
    /\ SumData(model.counts_cube.data) > 0
    /\ SumData(model.livetime_cube.data) = 0
    /\ Tables(file) = {"bg_cube"}

(* ---- C14 ---- *)

\* C14: a model with non-empty counts and livetime cubes written in the
\* default format reads back as a model whose three cubes have the edges and
\* data of the model written.
C14_RoundTrip ==
    [][ (last' = Last("write", "ok") /\ io_format' = "table" /\ NonTrivial(model)) =>
          LET r == read(file')
          IN  /\ r.outcome = "ok"
              /\ \A c \in {"counts_cube", "livetime_cube", "background_cube"} :
                   /\ EdgesOf(r.model[c]) = EdgesOf(model[c])
                   /\ r.model[c].data = model[c].data
                   /\ r.model[c].den = model[c].den
      ]_vars

C14_Witness ==
    /\ last = Last("read", "ok")
    /\ NonTrivial(model)
    /\ Tables(file) = SchemeNames
    /\ Stored(file, model.counts_cube)
    /\ Stored(file, model.livetime_cube)
    /\ Stored(file, model.background_cube)

(* ---- C15 ---- *)

HasTable(f, name) == HduIndex(f, name) # {}

\* C15: read of a file that lacks the counts or the livetime table succeeds
\* and returns the stored background cube with both the counts and the
\* livetime cube empty (never one loaded and the other empty); read of a
\* file without the background table fails.
C15_ReadTolerant ==
    [][ (last'.op = "read" /\ file # NoFile) =>
          /\ HasTable(file, "bg_cube") =>
                /\ last'.outcome = "ok"
                /\ Stored(file, model'.background_cube)
                /\ (~HasTable(file, "bg_counts_cube") \/ ~HasTable(file, "bg_livetime_cube")) =>
                      /\ model'.counts_cube = EmptyCube
                      /\ model'.livetime_cube = EmptyCube
                /\ (model'.counts_cube = EmptyCube) <=> (model'.livetime_cube = EmptyCube)
          /\ ~HasTable(file, "bg_cube") =>
                /\ last'.outcome # "ok"
                /\ model' = model
      ]_vars

C15_Witness ==
    /\ last = Last("read", "ok")
    /\ HasTable(file, "bg_counts_cube")
    /\ ~HasTable(file, "bg_livetime_cube")
    /\ model.counts_cube = EmptyCube
    /\ model.livetime_cube = EmptyCube
    /\ Stored(file, model.background_cube)

(* ---- C16 ---- *)

NotHess(observation_table) == observation_table.OBSERVATORY_NAME # "HESS"

\* C16: with an observation table whose observatory is not 'HESS',
\* fill_events fails with ValueError before any observation is processed and
\* leaves the three cubes as they were, and define_cube_binning fails with
\* ValueError when it scans the thresholds ('michi') and builds no model.
C16_UnsupportedObservatory ==
    [][ /\ Created =>
             \A t \in {u \in FillTables : NotHess(u)} :
                 LET r == fill_events(model, t)
                 IN  r.outcome = "ValueError" /\ r.model = model /\ r.n_done = 0
        /\ (last'.op = "fill_events" /\ last'.outcome = "ValueError") =>
             model' = model /\ filled' = filled
        /\ \A t \in {u \in BinningTables : NotHess(u)} :
             LET r == define_cube_binning(t, "michi")
             IN  r.outcome = "ValueError" /\ r.model = NoModel
      ]_vars

C16_Witness ==
    /\ last = Last("fill_events", "ValueError")
    /\ Len(filled) >= 1
    /\ SumData(model.counts_cube.data) > 0
    /\ SumData(model.livetime_cube.data) > 0

(* ---- C17 ---- *)

\* C17: a LO_THRES comment other than '[TeV]' is covered by a fallback unit:
\* for a HESS table fill_events and the threshold scan complete, wherever the
\* observation stands in the group, the first position included.
C17_FallbackUnit ==
    /\ last.op = "fill_events" => last.outcome \in {"ok", "ValueError"}
    /\ Created =>
          \A rows \in SeqsUpTo(ObsIds, MaxObs) :
              /\ fill_events(model, HessTable(rows)).outcome = "ok"
              /\ get_min_energy_threshold(HessTable(rows)).outcome = "ok"

(* ---- C18 ---- *)

\* processing rows[k] raises: its files are absent, or no row up to it has
\* bound the threshold unit
Raises(rows, k) ==
    \/ ~FileExists(rows[k])
    \/ \A i \in 1..k : FileExists(rows[i]) => AeffFile(rows[i]).comment # "[TeV]"

FirstRaising(rows) ==
    SetMin({k \in 1..Len(rows) : Raises(rows, k)})

\* cube data after adding the contributions of the observations in done
PlusCounts(m, done) ==
    [e \in 1..Len(m.counts_cube.data) |->
      [y \in 1..Len(m.counts_cube.data[e]) |->
        [x \in 1..Len(m.counts_cube.data[e][y]) |->
          m.counts_cube.data[e][y][x]
            + SumSeq([i \in 1..Len(done) |->
                        Cardinality(BinEvents(done[i], m.counts_cube, e, y, x))])]]]

PlusLivetime(m, done) ==
    [e \in 1..Len(m.livetime_cube.data) |->
      [y \in 1..Len(m.livetime_cube.data[e]) |->
        [x \in 1..Len(m.livetime_cube.data[e][y]) |->
          m.livetime_cube.data[e][y][x]
            + SumSeq([i \in 1..Len(done) |-> Gate(done[i], m.livetime_cube, e)])]]]

\* C18: when the k-th observation of a group is the first whose processing
\* raises, fill_events ends with that error and leaves the counts cube and
\* the livetime cube holding what they held plus the contributions of
\* observations 1..k-1, both cubes for the same observations.
C18_NotTransactional ==
    /\ Created =>
          \A t \in {u \in StoreTables : /\ Len(u.rows) <= MaxObs
                                        /\ \E k \in 1..Len(u.rows) : Raises(u.rows, k)} :
              LET k == FirstRaising(t.rows)
                  done == SubSeq(t.rows, 1, k - 1)
                  r == fill_events(model, t)
              IN  /\ r.outcome \in {"IOError", "UnboundLocalError"}
                  /\ r.model.counts_cube.data = PlusCounts(model, done)
                  /\ r.model.livetime_cube.data = PlusLivetime(model, done)
    /\ (last.op = "fill_events" /\ last.outcome # "ok") =>
          /\ C7_PerBin
          /\ \A e \in 1..Len(model.livetime_cube.data) :
               \A y \in 1..Len(model.livetime_cube.data[e]) :
                 \A x \in 1..Len(model.livetime_cube.data[e][y]) :
                   model.livetime_cube.data[e][y][x]
                       = SumSeq([i \in 1..Len(filled) |->
                                   Gate(filled[i], model.livetime_cube, e)])

C18_Witness ==
    /\ last = Last("fill_events", "IOError")
    /\ Len(filled) = MaxObs
    /\ SumData(model.counts_cube.data) > 0
    /\ SumData(model.livetime_cube.data) > 0

(* ---- C19 ---- *)

GroupSizes == 0..MaxNObs

\* C19 as stated: some group size n_obs >= 0 makes the computed number of
\* bins zero or negative on some axis.
C19_Original ==
    \/ \E n_obs \in GroupSizes : \E axis \in 1..3 : bg_cube_shape(n_obs)[axis] <= 0
    \/ BinningDone /\ \E axis \in 1..3 : BinCounts(model.counts_cube)[axis] <= 0

\* C19 (amended): the computation has no guard and needs none: for every
\* group size n_obs >= 0 the bin counts are at least (10, 20, 20), the values
\* for n_obs = 0..9, so no axis ever has zero or negative bins.
C19_BinsStayPositive ==
    /\ \A n_obs \in GroupSizes :
          /\ bg_cube_shape(n_obs)[1] >= BaseEBins - StepOffset
          /\ bg_cube_shape(n_obs)[2] >= BaseYBins - SpatialFactor * StepOffset
          /\ bg_cube_shape(n_obs)[3] >= BaseXBins - SpatialFactor * StepOffset
          /\ \A axis \in 1..3 : bg_cube_shape(n_obs)[axis] > 0
    /\ BinningDone =>
          /\ \A axis \in 1..3 : BinCounts(model.counts_cube)[axis] > 0
          /\ Len(CallRows) < ObsStep => BinCounts(model.counts_cube) = <<10, 20, 20>>

C19_Witness ==
    /\ BinningDone
    /\ Len(CallRows) = 0
    /\ BinCounts(model.counts_cube) = <<10, 20, 20>>

(* ---- C20 ---- *)

\* C20: a fill_events call, whether it returns or raises, leaves the
\* background cube (its data included) and the edge vectors of the counts,
\* livetime and background cubes as they were; only the data of the counts
\* and livetime cubes may differ.
C20_FillFrame ==
    [][ last'.op = "fill_events" =>
          /\ model'.background_cube = model.background_cube
          /\ EdgesOf(model'.counts_cube) = EdgesOf(model.counts_cube)
          /\ EdgesOf(model'.livetime_cube) = EdgesOf(model.livetime_cube)
          /\ model' = [model EXCEPT
                          !.counts_cube.data = model'.counts_cube.data,
                          !.livetime_cube.data = model'.livetime_cube.data] ]_vars

C20_Witness ==
    /\ last = Last("fill_events", "IOError")
    /\ Len(filled) >= 1
    /\ SumData(model.counts_cube.data) > 0
    /\ SumData(model.background_cube.data) > 0

(* ---- C21 ---- *)

\* C21: a smooth call changes only the data of the background cube: the
\* counts cube, the livetime cube and the edge vectors of all three cubes
\* are as before, so the number of passes the next call computes from the
\* counts cube is the number this call used.
C21_SmoothFrame ==
    [][ (last'.op = "smooth" /\ Created) =>
          /\ model'.counts_cube = model.counts_cube
          /\ model'.livetime_cube = model.livetime_cube
          /\ EdgesOf(model'.background_cube) = EdgesOf(model.background_cube)
          /\ model' = [model EXCEPT
                          !.background_cube.data = model'.background_cube.data,
                          !.background_cube.den = model'.background_cube.den]
          /\ n_smooth_of(SumData(model'.counts_cube.data))
                = n_smooth_of(SumData(model.counts_cube.data))
          /\ SmoothFits(model') =>
                smooth(model').counts_cube = model.counts_cube
      ]_vars

\* a model smooth has been applied to and can be applied to again
C21_Witness ==
    /\ last.op = "smooth"
    /\ SumData(model.counts_cube.data) >= CountsLow
    /\ SumData(model.background_cube.data) > 0
    /\ SmoothFits(model)

(* ---- C22 ---- *)

IsDigit(c) == c \in {"0", "1", "2", "3", "4", "5", "6", "7", "8", "9"}

\* the docstring table: the number of digits before the decimal point and
\* after it (0: no decimal point)
IauLayout(n) ==
    CASE n = 2 -> <<2, 0>> [] n = 3 -> <<3, 0>> [] n = 4 -> <<4, 0>>
      [] n = 5 -> <<4, 1>> [] n = 6 -> <<6, 0>> [] n = 7 -> <<6, 1>>

\* str is whole digits, then, if frac > 0, a point and frac digits
HasLayout(str, whole, frac) ==
    /\ Len(str) = whole + (IF frac > 0 THEN frac + 1 ELSE 0)
    /\ \A i \in 1..whole : IsDigit(str[i])
    /\ frac > 0 => str[whole + 1] = "."
    /\ \A i \in (whole + 2)..Len(str) : IsDigit(str[i])

TableDigits ==
    IF last.op \in {"ra_iau_format", "dec_iau_format"}
    THEN {n \in 2..7 : call.digits = IntDigits(n)} ELSE {}

\* C22: for digits 2..7 ra_iau_format returns HH, HHh, HHMM, HHMM.m, HHMMSS,
\* HHMMSS.s and dec_iau_format returns a sign followed by DD, DDd, DDMM,
\* DDMM.m, DDMMSS, DDMMSS.s: digits only, with a decimal point only before
\* the fractional part.
C22_IauLayout ==
    \A n \in TableDigits :
        /\ result.outcome = "ok"
        /\ last.op = "ra_iau_format" =>
              HasLayout(result.str, IauLayout(n)[1], IauLayout(n)[2])
        /\ last.op = "dec_iau_format" =>
              /\ result.str[1] \in {"+", "-"}
              /\ HasLayout(Tail(result.str), IauLayout(n)[1], IauLayout(n)[2])

(* ---- C23 ---- *)

ValidDigits(digits) == digits.type = "int" /\ digits.v >= 20

\* C23: a digits argument that is not an int >= 2 makes ra_iau_format and
\* dec_iau_format raise ValueError 'Invalid digits ... Valid options: int >=
\* 2' and return no string; an int >= 2 is accepted.
C23_DigitsValidated ==
    last.op \in {"ra_iau_format", "dec_iau_format"} =>
        IF ValidDigits(call.digits)
        THEN result.outcome = "ok"
        ELSE result = Raised("ValueError", "Invalid digits")

(* ---- C24 ---- *)

RowSet(rows) == {rows[k] : k \in 1..Len(rows)}

\* the longitude the box is compared with: in [0, 360), or in [-180, 180)
\* when one of the longitude limits is negative
BoxLon(row, lon_lim) ==
    LET lon == row.lon % 360
    IN  IF (lon_lim[1] < 0 \/ lon_lim[2] < 0) /\ lon >= 180 THEN lon - 360 ELSE lon

InsideBox(row, lon_lim, lat_lim) ==
    /\ lon_lim[1] <= BoxLon(row, lon_lim) /\ BoxLon(row, lon_lim) < lon_lim[2]
    /\ lat_lim[1] <= row.lat /\ row.lat < lat_lim[2]

\* C24: for every table and box the rows select_sky_box returns with
\* inverted=True and with inverted=False partition the table, the rows
\* returned with inverted=False being those with lon_lim[0] <= lon <
\* lon_lim[1] and lat_lim[0] <= lat < lat_lim[1].
C24_InvertedComplement ==
    (last = Last("select_sky_box", "ok")) =>
        LET other == select_sky_box(call.table, call.lon_lim, call.lat_lim,
                                    ~call.inverted)
            inside == IF call.inverted THEN other.rows ELSE result.rows
            outside == IF call.inverted THEN result.rows ELSE other.rows
            all == RowSet(call.table.rows)
        IN  /\ other.outcome = "ok"
            /\ RowSet(inside) \cup RowSet(outside) = all
            /\ RowSet(inside) \cap RowSet(outside) = {}
            /\ Len(inside) + Len(outside) = Len(call.table.rows)
            /\ RowSet(inside) = {r \in all : InsideBox(r, call.lon_lim, call.lat_lim)}

C24_Witness ==
    /\ last = Last("select_sky_box", "ok")
    /\ call.inverted
    /\ call.lon_lim[1] < 0
    /\ Len(result.rows) > 0
    /\ Len(result.rows) < Len(call.table.rows)
    /\ \E k \in 1..Len(call.table.rows) :
          /\ call.table.rows[k].lon >= 180
          /\ InsideBox(call.table.rows[k], call.lon_lim, call.lat_lim)

(* ---- C25 ---- *)

Exists(d) == d # NoDisk

Generated(n_obs) ==
    {DatasetFile("events", obs_id) : obs_id \in 1..n_obs}
    \cup {DatasetFile("effective area", obs_id) : obs_id \in 1..n_obs}

FilesOfType(d, filetype) == {f \in d.files : f.filetype = filetype}

\* what the claim says of a call that finds the path as it describes it
Outcome25(found, before, after) ==
    /\ (found /\ ~call'.overwrite) =>
          result'.outcome = "RuntimeError" /\ after = before
    /\ (found /\ call'.overwrite) =>
          /\ isdir(after)
          /\ after.files \subseteq Generated(call'.n_obs) \cup {DatasetFile("runinfo", 0)}
    /\ ~Exists(before) => isdir(after)
    /\ result'.outcome = "ok" =>
          /\ Generated(call'.n_obs) \subseteq after.files
          /\ Cardinality(FilesOfType(after, "events")) = call'.n_obs
          /\ Cardinality(FilesOfType(after, "effective area")) = call'.n_obs

\* C25 as stated: on a fits_path that already exists make_test_dataset
\* raises RuntimeError and changes nothing with overwrite=False, and removes
\* and recreates the directory before generating files with overwrite=True;
\* an absent path is created; a successful call writes one event list and
\* one effective-area file per observation.
C25_Original ==
    [][ last'.op = "make_test_dataset" => Outcome25(Exists(disk), disk, disk') ]_vars

\* C25 (amended): the same, for a fits_path that is an existing directory;
\* a path that exists but is not a directory makes the call raise OSError
\* (from os.mkdir) whatever overwrite is, and nothing is changed.
C25_ExistingDirectory ==
    [][ last'.op = "make_test_dataset" =>
          /\ Outcome25(isdir(disk), disk, disk')
          /\ (Exists(disk) /\ ~isdir(disk)) =>
                result'.outcome = "OSError" /\ disk' = disk ]_vars

C25_Witness ==
    /\ last = Last("make_test_dataset", "ok")
    /\ call.overwrite
    /\ call.n_obs = 2 * MaxObs
    /\ isdir(disk)
    /\ StaleFile \notin disk.files
    /\ Cardinality(FilesOfType(disk, "events")) = 2 * MaxObs

(* ---- C26 ---- *)

RowsOfGroup(g) ==
    {k \in 1..Len(lookup_obs_groups_michi) : lookup_obs_groups_michi[k].GROUP_ID = g}

\* C26: the lookup table has one row for each group ID 0..27, giving
\* altitude bin g div 2 and azimuth bin g mod 2; for the selection
\* [14, 15, 20, 21, 26, 27] the lookups are the pairs of {7, 10, 13} x {0, 1}.
C26_LookupTable ==
    /\ Len(lookup_obs_groups_michi) = 28
    /\ \A g \in 0..27 :
          /\ Cardinality(RowsOfGroup(g)) = 1
          /\ look_obs_groups_michi(g)
                = [outcome |-> "ok", i_alt |-> g \div 2, i_az |-> g % 2]
    /\ { << look_obs_groups_michi(group_ids_selection[k]).i_alt,
             look_obs_groups_michi(group_ids_selection[k]).i_az >> :
              k \in 1..Len(group_ids_selection) }
          = {7, 10, 13} \X {0, 1}
    /\ last.op = "plot_bg_cube_model_comparison" =>
          \A k \in 1..Len(result) :
              /\ result[k].i_alt = result[k].group \div 2
              /\ result[k].i_az = result[k].group % 2

C26_Witness ==
    /\ last.op = "plot_bg_cube_model_comparison"
    /\ call.group_ids_selection = group_ids_selection
    /\ {<<result[k].i_alt, result[k].i_az>> : k \in 1..Len(result)}
          = {7, 10, 13} \X {0, 1}
    /\ Len(result) = 6

(* ---- C27 ---- *)

\* C27: on a model created empty and filled by successful fill_events calls
\* (every observation having a positive livetime), every bin with a counts
\* value above zero has a livetime value above zero, events on a bin edge or
\* on the last energy edge included.
C27_CountsHaveLivetime ==
    (Created /\ last.op \in {"set_cube_binning", "fill_events"}
             /\ \A i \in 1..Len(filled) : Livetime(filled[i]) > 0) =>
        \A e \in 1..Len(model.counts_cube.data) :
          \A y \in 1..Len(model.counts_cube.data[e]) :
            \A x \in 1..Len(model.counts_cube.data[e][y]) :
              model.counts_cube.data[e][y][x] > 0
                  => model.livetime_cube.data[e][y][x] > 0

(* ---- C28 ---- *)

UniformInYX(cube) ==
    \A e \in 1..Len(cube.data) :
      \A y \in 1..Len(cube.data[e]) : \A x \in 1..Len(cube.data[e][y]) :
        cube.data[e][y][x] = cube.data[e][1][1]

NonDecreasingInEnergy(cube) ==
    \A e \in 1..(Len(cube.data) - 1) : cube.data[e][1][1] <= cube.data[e + 1][1][1]

NoBinDecreased(before, after) ==
    \A e \in 1..Len(before.data) :
      \A y \in 1..Len(before.data[e]) : \A x \in 1..Len(before.data[e][y]) :
        before.data[e][y][x] <= after.data[e][y][x]

\* C28: on a model created empty, after every fill_events call (livetimes
\* being non-negative) the livetime cube has one value for all (Y, X) bins
\* of an energy bin, its values do not decrease with the energy-bin index,
\* and the call has decreased no counts bin and no livetime bin.
C28_LivetimeShape ==
    [][ (last'.op = "fill_events" /\ Created) =>
          /\ UniformInYX(model'.livetime_cube)
          /\ NonDecreasingInEnergy(model'.livetime_cube)
          /\ NoBinDecreased(model.counts_cube, model'.counts_cube)
          /\ NoBinDecreased(model.livetime_cube, model'.livetime_cube) ]_vars

C28_Witness ==
    /\ last = Last("fill_events", "ok")
    /\ Len(filled) = MaxObs
    /\ model.livetime_cube.data[1][1][1] > 0
    /\ model.livetime_cube.data[1][1][1] < model.livetime_cube.data[2][1][1]
    /\ SumData(model.counts_cube.data) > 0

(* ---- C29 ---- *)

UnknownMethod == binning_args.method \notin {"default", "michi"}

\* C29: define_cube_binning with a method that is neither 'default' nor
\* 'michi' raises nothing, whatever the observatory and whether or not the
\* effective-area files can be read, and returns the model the default
\* method returns, its first energy edge being 0.1 TeV.
C29_UnknownMethodIsDefault ==
    (last.op = "define_cube_binning" /\ UnknownMethod) =>
        /\ last.outcome = "ok"
        /\ model = define_cube_binning(binning_args.observation_table, "default").model
        /\ model.counts_cube.energy_edges.v[1]
              = EnergyMinDefault * model.counts_cube.energy_edges.d

C29_Witness ==
    /\ last = Last("define_cube_binning", "ok")
    /\ binning_args.method = "adaptive"
    /\ Len(CallRows) = MaxObs
    /\ ~FileExists(CallRows[1])
    /\ binning_args.observation_table.OBSERVATORY_NAME # "HESS"
    /\ define_cube_binning(binning_args.observation_table, "michi").outcome # "ok"

(* ---- C30 ---- *)

\* every value of the cube is a number >= 0
NonNegative(cube) ==
    \A e \in 1..Len(cube.data) :
        /\ cube.den[e] > 0
        /\ \A y \in 1..Len(cube.data[e]) : \A x \in 1..Len(cube.data[e][y]) :
             cube.data[e][y][x] >= 0

PositiveIntegrals(cube) ==
    \A e \in 1..Len(cube.data) :
        cube.den[e] > 0 /\ integral_image(cube.data[e], bin_area(cube)) > 0

\* C30: when all background values are >= 0 and every energy slice has a
\* positive integral, smooth leaves all values >= 0; and one convolution
\* pass multiplies the sum of every slice by the kernel total, 25.
C30_StaysNonNegative ==
    [][ (last'.op = "smooth" /\ Created /\ NonNegative(model.background_cube)
            /\ PositiveIntegrals(model.background_cube)) =>
          /\ NonNegative(model'.background_cube)
          /\ SumImage(k5a) = 25
          /\ \A e \in 1..Len(model.background_cube.data) :
                SumImage(smooth_pass(model.background_cube.data[e]))
                    = 25 * SumImage(model.background_cube.data[e]) ]_vars

C30_Witness ==
    /\ last.op = "smooth"
    /\ NonNegative(model.background_cube)
    /\ PositiveIntegrals(model.background_cube)
    /\ \E e \in 1..Len(model.background_cube.data) :
          /\ model.background_cube.den[e] > 1
          /\ model.background_cube.data[e][1][1] # model.background_cube.data[e][1][2]

====
